---- MODULE Spec2Model ----
(***************************************************************************)
(* A model of the relational persistence engine of nathanhoad-data         *)
(* (src/src/util.ts, class Model): the relation registry built by the      *)
(* constructor, save with its four relation strategies, destroy and find,  *)
(* run against a storage of tables with a primary key on id.               *)
(*                                                                         *)
(* Encoding.  Every scalar is a string: ids, names, timestamps, column     *)
(* names.  Null is JavaScript null / SQL NULL, Undef is JavaScript         *)
(* undefined (a field that is absent from a record reads as Undef).  An    *)
(* in-memory record is a function from field names to values; the value of *)
(* a relation field is a sequence of records: the list itself for a        *)
(* to-many relation, and <<>> (null) or <<v>> for a to-one relation.       *)
(* A table is a set of rows, a row a function from the table's columns.    *)
(***************************************************************************)
EXTENDS Integers, Sequences, FiniteSets, TLC

VARIABLES
    scn,    \* the registered schema: which relations Database.model declared
    db,     \* storage: table name -> set of rows
    next,   \* number of uuid() values handed out so far
    calls,  \* number of top-level calls made so far
    last,   \* the last completed top-level call, its inputs and its outcome
    ctx,    \* the registered contexts: table name -> options.contexts
    database \* the Database object: its knex, its isConnected, its history

vars == <<scn, db, next, calls, last, ctx, database>>

(***************************************************************************)
(* Bounds                                                                  *)
(***************************************************************************)
MaxCalls == 2   \* top-level calls in one behaviour
MaxGen == 3     \* uuid() values available in one behaviour
MaxList == 2    \* longest list attached to a to-many relation field

(***************************************************************************)
(* Values                                                                  *)
(***************************************************************************)
Null == "NULL"
Undef == "UNDEFINED"
StrNull == "null"           \* the four-letter string, not null

\* the readings of new Date(): the clock moves on between two calls
Time(n) == "t" \o ToString(n)
\* a reading later in the same call, when the clock has moved on meanwhile
Later(n) == Time(n) \o "+"
Times == {Time(n) : n \in 1..(MaxCalls + 1)} \cup {Later(n) : n \in 1..(MaxCalls + 1)}

Get(o, k) == IF k \in DOMAIN o THEN o[k] ELSE Undef
Put(o, k, v) == (k :> v) @@ o
WithoutNothing(o, ks) == o    \* faulty variant: no key is deleted
Without(o, ks) == [k \in DOMAIN o \ ks |-> o[k]]
Empty == [k \in {} |-> Null]    \* the object {}
Elements(list) == {list[i] : i \in 1..Len(list)}

Truthy(v) == v \notin {Null, Undef, ""}

\* uuid(): a value never handed out before and never chosen by a caller
uuid(n) == "g" \o ToString(n + 1)

\* typeof v === "object" for the scalars of the model: null and Date
IsObject(v) == v = Null \/ v \in Times

\* JSON.stringify of such a value: "null", or the quoted ISO text of a date
Stringify(v) == IF v = Null THEN StrNull ELSE "\"" \o v \o "\""

\* the storage reading a written value into a timestamp column: it accepts
\* the quoted text that Stringify made of a date
ParseColumn(v) ==
    IF \E t \in Times : Stringify(t) = v
    THEN CHOOSE t \in Times : Stringify(t) = v
    ELSE v

(***************************************************************************)
(* Relation registry (Model constructor)                                   *)
(***************************************************************************)
\* the inflections of the "i" package on the words the schemas use
pluralize(w) ==
    CASE w = "user" -> "users"
      [] w = "project" -> "projects"
      [] w = "profile" -> "profiles"
      [] OTHER -> w
singularize(w) ==
    CASE w = "users" -> "user"
      [] w = "projects" -> "project"
      [] w = "profiles" -> "profile"
      [] OTHER -> w

\* faulty variant: the two names are joined as they come
JoinUnsorted(a, b) == a \o "_" \o b

\* [a, b].sort().join("_") on table names
AlphaOrder == <<"profiles", "projects", "users">>
AlphaIndex(w) == CHOOSE i \in DOMAIN AlphaOrder : AlphaOrder[i] = w
SortJoin(a, b) ==
    IF AlphaIndex(a) <= AlphaIndex(b) THEN a \o "_" \o b ELSE b \o "_" \o a

Or(v, d) == IF Truthy(v) THEN v ELSE d

\* a shorthand declaration with every optional key absent
Decl == [hasAndBelongsToMany |-> Undef, belongsTo |-> Undef, hasMany |-> Undef,
         hasOne |-> Undef, dependent |-> FALSE, through |-> Undef,
         primaryKey |-> Undef, foreignKey |-> Undef, table |-> Undef]

\* the canonical definition of relation relationName of table tableName
Relation(tableName, relationName, relation) ==
    IF Truthy(relation.hasAndBelongsToMany) THEN
        [name |-> relationName, many |-> TRUE, type |-> "hasAndBelongsToMany",
         throughTable |-> Or(relation.through, SortJoin(tableName, pluralize(relationName))),
         tableName |-> Or(relation.table, pluralize(relationName)),
         sourceKey |-> Or(relation.primaryKey, singularize(tableName) \o "Id"),
         key |-> Or(relation.foreignKey, singularize(relationName) \o "Id"),
         dependent |-> FALSE]
    ELSE IF Truthy(relation.belongsTo) THEN
        [name |-> relationName, many |-> FALSE, type |-> "belongsTo",
         throughTable |-> Undef,
         tableName |-> Or(relation.table, pluralize(relation.belongsTo)),
         sourceKey |-> Undef,
         key |-> Or(relation.foreignKey, singularize(relationName) \o "Id"),
         dependent |-> FALSE]
    ELSE IF Truthy(relation.hasMany) THEN
        [name |-> relationName, many |-> TRUE, type |-> "hasMany",
         throughTable |-> Undef,
         tableName |-> Or(relation.table, pluralize(relation.hasMany)),
         sourceKey |-> Undef,
         key |-> Or(relation.foreignKey, singularize(tableName) \o "Id"),
         dependent |-> relation.dependent = TRUE]
    ELSE
        [name |-> relationName, many |-> FALSE, type |-> "hasOne",
         throughTable |-> Undef,
         tableName |-> Or(relation.table, pluralize(relation.hasOne)),
         sourceKey |-> Undef,
         key |-> Or(relation.foreignKey, singularize(tableName) \o "Id"),
         dependent |-> relation.dependent = TRUE]

(***************************************************************************)
(* The Database object (Database.ts): the connection it holds              *)
(*                                                                         *)
(* knex is <<>> (null) or <<c>>, c naming what the handle is connected to. *)
(* isConnected is "true", "false" or Undef (the field has no initialiser). *)
(* An argument is <<>> (none given), <<"string", s>> or <<"knex", k>>.     *)
(***************************************************************************)
MaxSteps == 5       \* calls and completions on the Database in one behaviour
MaxClosing == 2     \* disconnect calls waiting for knex.destroy() at once

TEST_DATABASE_URL == "postgres://test"
DATABASE_URL == "postgres://live"
NodeEnvs == {"test", "production"}
Arguments == {<<>>, <<"string", "postgres://other">>, <<"knex", "handle">>}

\* the object as the constructor has it before it looks at its argument
Fresh(env) ==
    [knex |-> <<>>, isConnected |-> Undef, closing |-> 0, NODE_ENV |-> env,
     op |-> "new", arg |-> <<>>, was |-> Undef, steps |-> 0]

Did(D, op, arg, N) ==
    [N EXCEPT !.op = op, !.arg = arg, !.was = D.isConnected,
              !.steps = D.steps + 1]

\* connectionOrKnex || NODE_ENV == "test" ? TEST_DATABASE_URL : DATABASE_URL,
\* which JavaScript reads as (a || b) ? c : d
connection(D, arg) ==
    IF arg # <<>> \/ D.NODE_ENV = "test" THEN TEST_DATABASE_URL
    ELSE DATABASE_URL

connect(D, arg) ==
    IF D.isConnected = "true" THEN D
    ELSE IF arg = <<>> \/ arg[1] = "string"
    THEN [D EXCEPT !.knex = <<connection(D, arg)>>, !.isConnected = "true"]
    ELSE [D EXCEPT !.knex = <<arg[2]>>, !.isConnected = "true"]

\* new Database(connectionOrKnex); new Database(false) does not connect
constructor(env, connects, arg) ==
    IF connects THEN Did(Fresh(env), "new", arg, connect(Fresh(env), arg))
    ELSE Fresh(env)

closedKeepsFlag(D) ==
    [D EXCEPT !.knex = <<>>, !.closing = @ - 1]

\* disconnect() after its await: knex = null, isConnected = false
closed(D) ==
    [D EXCEPT !.knex = <<>>, !.isConnected = "false", !.closing = @ - 1]

\* the Database the models of the other specifications are registered on
Connected == constructor("test", TRUE, <<"knex", "handle">>)

(***************************************************************************)
(* The schemas a program registers (the Database.model calls of the tests) *)
(***************************************************************************)
Schemas == {"habtm", "hasMany", "hasManyDependent", "hasOne", "hasOneDependent"}

\* options.relations of each Database.model call: table -> name -> shorthand
Declared(s) ==
    CASE s = "habtm" ->
           [users |-> [projects |-> [Decl EXCEPT !.hasAndBelongsToMany = "projects",
                                                 !.dependent = TRUE]],
            projects |-> [users |-> [Decl EXCEPT !.hasAndBelongsToMany = "users"]]]
      [] s \in {"hasMany", "hasManyDependent"} ->
           [users |-> [projects |-> [Decl EXCEPT !.hasMany = "projects",
                                                 !.dependent = (s = "hasManyDependent")]],
            projects |-> [user |-> [Decl EXCEPT !.belongsTo = "user"]]]
      \* two levels: the projects of a user have users and a profile of their own
      [] s = "cascade" ->
           [users |-> [projects |-> [Decl EXCEPT !.hasMany = "projects", !.dependent = TRUE]],
            projects |-> [users |-> [Decl EXCEPT !.hasAndBelongsToMany = "users"],
                          profile |-> [Decl EXCEPT !.hasOne = "profile", !.dependent = TRUE,
                                                   !.foreignKey = "projectId"]],
            profiles |-> [r \in {} |-> Decl]]
      [] OTHER ->
           [users |-> [profile |-> [Decl EXCEPT !.hasOne = "profile",
                                                !.dependent = (s = "hasOneDependent")]],
            profiles |-> [user |-> [Decl EXCEPT !.belongsTo = "user"]]]

\* the columns createTable gave each table
BaseColumns == {"id", "name", "createdAt", "updatedAt"}
Columns(s) ==
    CASE s = "habtm" ->
           [users |-> BaseColumns, projects |-> BaseColumns,
            projects_users |-> {"id", "userId", "projectId", "createdAt", "updatedAt"}]
      [] s \in {"hasMany", "hasManyDependent"} ->
           [users |-> BaseColumns, projects |-> BaseColumns \cup {"userId"}]
      [] s = "cascade" ->
           [users |-> BaseColumns, projects |-> BaseColumns \cup {"userId"},
            profiles |-> BaseColumns \cup {"projectId"},
            projects_users |-> {"id", "userId", "projectId", "createdAt", "updatedAt"}]
      [] OTHER ->
           [users |-> BaseColumns, profiles |-> BaseColumns \cup {"userId"}]

Tables(s) == DOMAIN Columns(s)
Models(s) == DOMAIN Declared(s)

\* this.options.availableRelations of the model of table t
availableRelations(s, t) ==
    IF t \in Models(s)
    THEN [r \in DOMAIN Declared(s)[t] |-> Relation(t, r, Declared(s)[t][r])]
    ELSE Empty

(***************************************************************************)
(* Storage (the knex query builder bound to a table)                       *)
(***************************************************************************)
Ev(kind, t, arg) == <<kind, t, arg>>

HasId(d, t, id) == \E r \in d[t] : r.id = id

\* insert(obj, "*"): an undefined value takes the column default (NULL);
\* a column the table lacks, a null id or an id already stored is an error
InsertOk(d, t, obj) ==
    /\ DOMAIN obj \subseteq Columns(scn)[t]
    /\ Truthy(Get(obj, "id"))
    /\ ~HasId(d, t, obj.id)
InsertRow(t, obj) ==
    [c \in Columns(scn)[t] |->
        IF Get(obj, c) = Undef THEN Null ELSE ParseColumn(obj[c])]
Insert(d, t, obj) == [d EXCEPT ![t] = @ \cup {InsertRow(t, obj)}]

\* update(obj): undefined values are left out; nothing left to set, or a
\* column the table lacks, is an error
UpdateOk(t, obj) ==
    /\ DOMAIN obj \subseteq Columns(scn)[t]
    /\ \E c \in DOMAIN obj : obj[c] # Undef
UpdateRow(r, obj) ==
    [c \in DOMAIN r |->
        IF Get(obj, c) = Undef THEN r[c] ELSE ParseColumn(obj[c])]
\* where(sel).update(obj) with sel the set of rows the where clause matches
Update(d, t, sel, obj) ==
    [d EXCEPT ![t] = (@ \ sel) \cup {UpdateRow(r, obj) : r \in sel}]
Delete(d, t, sel) == [d EXCEPT ![t] = @ \ sel]

(***************************************************************************)
(* Hooks and the clock                                                     *)
(***************************************************************************)
\* runHook: every table registers all six hooks; the hook is called, and
\* throws when the environment env of the call says so
\* hooked keeps, of the record the hook was handed, the relation fields, and
\* whether the caller awaited the promise runHook gave back
runHook(R, t, hookName, object) ==
    [R EXCEPT !.log = Append(@, Ev("hook", t, hookName)),
              !.hooked = Append(@, [t |-> t, hookName |-> hookName, awaited |-> FALSE,
                  relations |-> DOMAIN object \cap DOMAIN availableRelations(scn, t)])]
\* faulty variant: the caller goes on without waiting for the hook
unawaited(R) == R

\* await this.runHook(...): the caller goes on when the hook has finished
awaited(R) == [R EXCEPT !.hooked[Len(R.hooked)].awaited = TRUE]
Throws(env, t, hookName) == <<t, hookName>> \in env.thr

\* new Date(): the first reading of a call, and the readings after it
Now(env, nd) == IF nd = 0 THEN env.times[1] ELSE env.times[2]

\* the options of a call that passes none
NoOptions ==
    [exists |-> "unset", updatedAt |-> Undef, skipHooks |-> FALSE,
     transaction |-> FALSE]

\* the part of save that turns values into column values
Normalise(v) ==
    LET s == IF IsObject(v) THEN Stringify(v) ELSE v
    IN  IF s = StrNull THEN Null ELSE s

\* the ids of a list of records, as relatedObjects.map(r => r.id).filter(id => id)
IdsOf(objs) == {Get(objs[i], "id") : i \in DOMAIN objs} \ {Null, Undef, ""}

(***************************************************************************)
(* save and the relation strategies.  A call threads a record R through:   *)
(* db and next as the variables, log the hooks run and queries issued so   *)
(* far, nd the number of new Date() readings, err whether the call threw,  *)
(* canc whether a before hook cancelled it, and ret what it returned.      *)
(* Promise.all runs its branches one after the other in list order; a      *)
(* branch that throws does not stop the branches after it.                 *)
(***************************************************************************)
RECURSIVE save(_, _, _, _, _)
RECURSIVE saveWrite(_, _, _, _, _, _, _, _)
RECURSIVE saveRelations(_, _, _, _, _)
RECURSIVE saveEachRelation(_, _, _, _, _, _)
RECURSIVE saveOneRelation(_, _, _, _, _, _)
RECURSIVE saveRestRelations(_, _, _, _, _, _)
RECURSIVE saveHasManyRelation(_, _, _, _, _, _, _)
RECURSIVE saveEachHasMany(_, _, _, _, _, _, _)
RECURSIVE saveRestHasMany(_, _, _, _, _, _, _)
RECURSIVE saveBelongsToRelation(_, _, _, _, _, _, _)
RECURSIVE saveHasAndBelongsToManyRelation(_, _, _, _, _, _, _)
RECURSIVE saveEachHasAndBelongsToMany(_, _, _, _, _, _, _, _)
RECURSIVE saveRestHasAndBelongsToMany(_, _, _, _, _, _, _, _)
RECURSIVE saveHasOneRelation(_, _, _, _, _, _, _)

Start(d, n) ==
    [db |-> d, next |-> n, log |-> <<>>, nd |-> 0, via |-> <<>>, hooked |-> <<>>,
     set |-> <<>>, wrote |-> <<>>, err |-> FALSE, canc |-> FALSE, ret |-> Empty]
\* faulty variant: the error is swallowed
ThrowNothing(R) == R
Throw(R) == [R EXCEPT !.err = TRUE]
Return(R, v) == [R EXCEPT !.ret = v, !.canc = FALSE]
Issue(R, kind, t, arg) == [R EXCEPT !.log = Append(@, Ev(kind, t, arg))]
\* relatedObject[key] = value, relatedObject being a record of the caller
\* that the call holds by reference: set keeps the assignments made to them
assign(R, relatedObject, key, value) ==
    [R EXCEPT !.set = Append(@, [object |-> relatedObject, key |-> key, value |-> value])]

\* faulty variant: the query builder is never bound to the transaction
knexUnbound(R, options, q, t) ==
    [R EXCEPT !.via = Append(@, [q |-> q, t |-> t, transaction |-> FALSE])]

\* Model.knex(options): the query builder of table t, bound to the
\* transaction of the options when they carry one; q is what it is used for
knex(R, options, q, t) ==
    [R EXCEPT !.via = Append(@, [q |-> q, t |-> t, transaction |-> options.transaction])]

\* faulty variant: the table is never asked, an unflagged record is new
recordExistsByFlagOnly(d, t, id, options) == options.exists = "true"

\* whether the record has already been persisted
recordExists(d, t, id, options) ==
    IF options.exists # "unset" THEN options.exists = "true" ELSE HasId(d, t, id)

\* the hooks save runs before and after the write, in order
hooksBefore(exists) ==
    IF exists THEN <<"beforeSave">> ELSE <<"beforeCreate", "beforeSave">>
\* faulty variant: afterCreate runs before afterSave
hooksAfterCreateFirst(exists) ==
    IF exists THEN <<"afterSave">> ELSE <<"afterCreate", "afterSave">>
hooksAfter(exists) ==
    IF exists THEN <<"afterSave">> ELSE <<"afterSave", "afterCreate">>

\* faulty variant: a cancelled save gives back the prepared record
cancelledPrepared(object, savingObject) == savingObject

\* what save gives back when a before hook threw
cancelled(object, savingObject) == object

\* faulty variant: a hook that throws stops nothing
RECURSIVE runHooksIgnoringThrows(_, _, _, _, _)
runHooksIgnoringThrows(R, t, names, object, env) ==
    IF names = <<>> THEN [R EXCEPT !.canc = FALSE]
    ELSE runHooksIgnoringThrows(awaited(runHook(R, t, Head(names), object)), t, Tail(names), object, env)

\* runs the hooks of names in order up to the first that throws;
\* canc tells whether one threw
RECURSIVE runHooks(_, _, _, _, _)
runHooks(R, t, names, object, env) ==
    IF names = <<>> THEN [R EXCEPT !.canc = FALSE]
    ELSE IF Throws(env, t, Head(names))
    THEN [awaited(runHook(R, t, Head(names), object)) EXCEPT !.canc = TRUE]
    ELSE runHooks(awaited(runHook(R, t, Head(names), object)), t, Tail(names), object, env)

\* the end of save: the after hooks, and the record given back
saveAfter(R4, t, exists, opts, env) ==
    IF R4.err THEN R4
    ELSE Return(IF opts.skipHooks THEN R4
                ELSE runHooks(R4, t, hooksAfter(exists), R4.ret, [env EXCEPT !.thr = {}]),
                R4.ret)

\* the middle of save, R2 being the call after its before hooks: the write,
\* the relations reattached and saved
saveWrite(R2, t, object, relations, savingObject, exists, opts, env) ==
    LET now == opts.updatedAt
        \* the actual saving
        inserting == Put(savingObject, "createdAt", now)
        matched == {r \in R2.db[t] : r.id = savingObject.id}
        writeOk == IF exists THEN UpdateOk(t, savingObject)
                             ELSE InsertOk(R2.db, t, inserting)
        \* wrote keeps the fields handed to update and to insert
        issued == IF exists
                  THEN [Issue(knex(R2, opts, "update", t), "update", t, savingObject.id)
                          EXCEPT !.wrote = Append(@, [t |-> t, fields |-> DOMAIN savingObject])]
                  ELSE [Issue(knex(R2, opts, "insert", t), "insert", t, savingObject.id)
                          EXCEPT !.wrote = Append(@, [t |-> t, fields |-> DOMAIN inserting])]
        R3 == [issued EXCEPT !.db = IF exists
                                    THEN Update(@, t, matched, savingObject)
                                    ELSE Insert(@, t, inserting)]
        results == IF exists
                   THEN {UpdateRow(r, savingObject) : r \in matched}
                   ELSE {InsertRow(t, inserting)}
        written == IF results = {} THEN Empty ELSE CHOOSE r \in results : TRUE
    IN  IF R2.canc THEN [R2 EXCEPT !.ret = cancelled(object, savingObject)]
        ELSE IF ~writeOk THEN Throw(issued)
        \* reattach the relations and save them
        ELSE saveAfter(saveRelations(R3, t, relations @@ written, opts, env),
                       t, exists, opts, env)

\* Model.save of one record on the model of table t
save(R, t, object, options, env) ==
    LET rels == availableRelations(scn, t)
        includedRelations == DOMAIN object \cap DOMAIN rels
        relations == [k \in includedRelations |-> object[k]]
        detached == Without(object, includedRelations)
        noId == Get(detached, "id") = Undef
        withId == IF noId THEN Put(detached, "id", uuid(R.next)) ELSE detached
        normalised == [k \in DOMAIN withId |-> Normalise(withId[k])]
        now == Now(env, R.nd)
        opts == [options EXCEPT !.updatedAt = now]
        savingObject == Put(normalised, "updatedAt", now)
        exists == recordExists(R.db, t, savingObject.id, options)
        asked == IF options.exists = "unset" THEN knex(R, opts, "exists", t) ELSE R
        R1 == [asked EXCEPT !.next = IF noId THEN @ + 1 ELSE @, !.nd = @ + 1]
    \* before hooks can cancel a save
    IN  saveWrite(IF opts.skipHooks THEN [R1 EXCEPT !.canc = FALSE]
                  ELSE runHooks(R1, t, hooksBefore(exists), savingObject, env),
                  t, object, relations, savingObject, exists, opts, env)

\* the strategies answer with R and the SavedRelation sr
Saved(R, relation, value) ==
    [R |-> R, sr |-> [name |-> relation.name, value |-> value,
                      belongsToKey |-> Undef, belongsToValue |-> Undef]]
\* the same, the value being the list, or the one record, R returned
SavedList(R, relation) == Saved(R, relation, R.ret)
SavedOne(R, relation) == Saved(R, relation, <<R.ret>>)

saveRelations(R, t, object, options, env) ==
    LET rels == availableRelations(scn, t)
        relationProperties == DOMAIN object \cap DOMAIN rels
    IN  IF DOMAIN rels = {} THEN Return(R, object)
        ELSE saveEachRelation(R, t, object, options, env, relationProperties)

\* savedRelations.forEach: the saved relation one written into the record
mergeRelation(one, rest) ==
    LET named == Put(rest.ret, one.sr.name, one.sr.value)
        merged == IF Truthy(one.sr.belongsToKey)
                  THEN Put(named, one.sr.belongsToKey, one.sr.belongsToValue)
                  ELSE named
    IN  IF one.R.err \/ rest.err THEN Throw(rest)
        ELSE Return(rest, merged)

\* the switch on relation.type
saveOneRelation(R, t, object, options, env, key) ==
    LET relation == availableRelations(scn, t)[key]
        value == object[key]
    IN  CASE relation.type = "hasMany" ->
               saveHasManyRelation(R, t, object, relation, value, options, env)
          [] relation.type = "belongsTo" ->
               saveBelongsToRelation(R, t, object, relation, value, options, env)
          [] relation.type = "hasAndBelongsToMany" ->
               saveHasAndBelongsToManyRelation(R, t, object, relation, value, options, env)
          [] OTHER ->
               saveHasOneRelation(R, t, object, relation, value, options, env)

saveRestRelations(one, t, object, options, env, todo) ==
    mergeRelation(one, saveEachRelation([one.R EXCEPT !.err = FALSE], t, object,
                                        options, env, todo))

\* Promise.all over the relation fields, then savedRelations.forEach
saveEachRelation(R, t, object, options, env, todo) ==
    IF todo = {} THEN Return(R, object)
    ELSE saveRestRelations(
             saveOneRelation(R, t, object, options, env, CHOOSE k \in todo : TRUE),
             t, object, options, env, todo \ {CHOOSE k \in todo : TRUE})

\* Promise.all of a list of saves: one is the first, rest the others; the
\* call throws when one of them threw, else gives the list of saved records
\* faulty variant: a branch that threw is taken as saved
CollectSwallowing(one, rest) == Return(rest, <<one.ret>> \o rest.ret)

Collect(one, rest) ==
    IF one.err \/ rest.err THEN Throw(rest)
    ELSE Return(rest, <<one.ret>> \o rest.ret)

saveRestHasMany(one, object, relation, relatedObjects, existing, options, env) ==
    Collect(one, saveEachHasMany([one EXCEPT !.err = FALSE], object, relation,
                                 relatedObjects, existing, options, env))

\* the body of relatedObjects.map in saveHasManyRelation, over the list:
\* answers R with ret the list of the saved records
saveEachHasMany(R, object, relation, relatedObjects, existing, options, env) ==
    IF relatedObjects = <<>> THEN Return(R, <<>>)
    ELSE saveRestHasMany(
             save(assign(R, Head(relatedObjects), relation.key, object.id),
                  relation.tableName,
                  Put(Head(relatedObjects), relation.key, object.id),
                  [options EXCEPT !.exists =
                      IF Get(Head(relatedObjects), "id") \in existing
                      THEN "true" ELSE "false"], env),
             object, relation, Tail(relatedObjects), existing, options, env)

\* faulty variant: no row is detached
unsetHasManyNone(d, relation, id, newRelatedObjectIds) == {}

\* the rows that point at the parent and are not among the new ids
unsetHasMany(d, relation, id, newRelatedObjectIds) ==
    {r \in d[relation.tableName] :
        r[relation.key] = id /\ r.id \notin newRelatedObjectIds}

\* select("id").whereIn("id", ids) on table t
existingIds(d, t, ids) == {r.id : r \in {x \in d[t] : x.id \in ids}}

saveHasManyRelation(R, t, object, relation, relatedObjects, options, env) ==
    LET related == relation.tableName
        id == Get(object, "id")
        newRelatedObjectIds == IdsOf(relatedObjects)
        \* unset any objects that have this model as their relation id
        unset == unsetHasMany(R.db, relation, id, newRelatedObjectIds)
        R1 == [knex(Issue(knex(R, options, "unset", related), "unset", related, id),
                    options, "select", related)
                 EXCEPT !.db = Update(@, related, unset, (relation.key :> Null))]
        existingRelatedObjectIds == existingIds(R1.db, related, newRelatedObjectIds)
    IN  IF id = Undef THEN Saved(Throw(R), relation, <<>>)
        ELSE SavedList(saveEachHasMany(R1, object, relation, relatedObjects,
                                       existingRelatedObjectIds, options, env),
                       relation)

\* faulty variant: the foreign key is always written as null
foreignIdAlwaysNull(foriegnValue) == Null

\* foriegnValue ? foriegnValue.id : null, foriegnValue being <<>> for null
foreignIdOf(foriegnValue) ==
    IF foriegnValue # <<>> THEN Get(foriegnValue[1], "id") ELSE Null

\* the end of saveBelongsToRelation, R1 being the call after the save of
\* the related record: the parent is updated to point at it
pointAt(R1, t, object, relation, relatedObject, options) ==
    LET foriegnValue == IF relatedObject # <<>> THEN <<R1.ret>> ELSE <<>>
        foreignId == foreignIdOf(foriegnValue)
        id == Get(object, "id")
        \* update this model to point to the related object
        R2 == [Issue(knex(R1, options, "update", t), "update", t, id)
                 EXCEPT !.db = Update(@, t, {r \in @[t] : r.id = id},
                                      (relation.key :> foreignId))]
    IN  IF R1.err THEN Saved(R1, relation, <<>>)
        ELSE IF id = Undef THEN Saved(Throw(R1), relation, <<>>)
        ELSE IF ~UpdateOk(t, (relation.key :> foreignId))
        THEN Saved(Throw(Issue(knex(R1, options, "update", t), "update", t, id)),
                   relation, <<>>)
        ELSE [R |-> R2,
              sr |-> [name |-> relation.name, value |-> foriegnValue,
                      belongsToKey |-> relation.key, belongsToValue |-> foreignId]]

saveBelongsToRelation(R, t, object, relation, relatedObject, options, env) ==
    pointAt(IF relatedObject # <<>>
            THEN save(R, relation.tableName, relatedObject[1], options, env)
            ELSE R,
            t, object, relation, relatedObject, options)

\* faulty variant: a join row is inserted for every record of the list
needsJoinRowAlways(relatedId, existingRelatedObjectIds) == TRUE

\* whether a new join row is needed for the saved related record
needsJoinRow(relatedId, existingRelatedObjectIds) ==
    relatedId \notin existingRelatedObjectIds

\* the join rows of the parent whose related id is not among the new ids
removedJoinRows(d, relation, id, newRelatedObjectIds) ==
    {j \in d[relation.throughTable] :
        j[relation.sourceKey] = id /\ j[relation.key] \notin newRelatedObjectIds}

\* the join row of one saved related record, saved being the call after
\* the save of the record
insertJoinRow(saved, object, relation, existingRelatedObjectIds, options) ==
    LET through == relation.throughTable
        relatedId == Get(saved.ret, "id")
        newJoinRow == (relation.key :> relatedId)
                      @@ (relation.sourceKey :> object.id)
                      @@ [id |-> uuid(saved.next),
                          createdAt |-> options.updatedAt,
                          updatedAt |-> options.updatedAt]
        joined == [Issue(knex(saved, options, "insert", through),
                         "insert", through, newJoinRow.id)
                     EXCEPT !.next = @ + 1,
                            !.db = IF InsertOk(saved.db, through, newJoinRow)
                                   THEN Insert(@, through, newJoinRow) ELSE @,
                            !.err = ~InsertOk(saved.db, through, newJoinRow)]
    \* see if we need to insert a new join row
    IN  IF saved.err \/ ~needsJoinRow(relatedId, existingRelatedObjectIds)
        THEN saved ELSE joined

saveRestHasAndBelongsToMany(one, object, relation, relatedObjects, existingRelatedObjectIds, existingRelatedIds, options, env) ==
    Collect(one, saveEachHasAndBelongsToMany([one EXCEPT !.err = FALSE], object,
                     relation, relatedObjects, existingRelatedObjectIds,
                     existingRelatedIds, options, env))

\* the body of relatedObjects.map in saveHasAndBelongsToManyRelation, over
\* the list
saveEachHasAndBelongsToMany(R, object, relation, relatedObjects, existingRelatedObjectIds, existingRelatedIds, options, env) ==
    IF relatedObjects = <<>> THEN Return(R, <<>>)
    ELSE saveRestHasAndBelongsToMany(
             insertJoinRow(
                 save(R, relation.tableName, Head(relatedObjects),
                      [options EXCEPT !.exists =
                          IF Get(Head(relatedObjects), "id") \in existingRelatedIds
                          THEN "true" ELSE "false"], env),
                 object, relation, existingRelatedObjectIds, options),
             object, relation, Tail(relatedObjects), existingRelatedObjectIds,
             existingRelatedIds, options, env)

saveHasAndBelongsToManyRelation(R, t, object, relation, relatedObjects, options, env) ==
    LET through == relation.throughTable
        id == Get(object, "id")
        newRelatedObjectIds == IdsOf(relatedObjects)
        mine == {j \in R.db[through] : j[relation.sourceKey] = id}
        \* the join rows that already exist
        existingRelatedObjectIds == {j[relation.key] : j \in mine}
        \* delete any join rows that have been removed
        removed == removedJoinRows(R.db, relation, id, newRelatedObjectIds)
        R1 == [knex(Issue(knex(knex(R, options, "select", through),
                               options, "delete", through),
                          "delete", through, id),
                    options, "select", relation.tableName)
                 EXCEPT !.db = Delete(@, through, removed)]
        \* which related rows already exist
        existingRelatedIds ==
            existingIds(R1.db, relation.tableName, newRelatedObjectIds)
    IN  IF id = Undef THEN Saved(Throw(R), relation, <<>>)
        ELSE SavedList(saveEachHasAndBelongsToMany(R1, object, relation,
                           relatedObjects, existingRelatedObjectIds,
                           existingRelatedIds, options, env),
                       relation)

\* faulty variant: no other row is detached
unsetHasOneNone(d, relation, id, relatedId) == {}

\* the other rows that point at the parent
unsetHasOne(d, relation, id, relatedId) ==
    {r \in d[relation.tableName] : r[relation.key] = id /\ r.id # relatedId}

saveHasOneRelation(R, t, object, relation, relatedObject, options, env) ==
    LET related == relation.tableName
        id == Get(object, "id")
        given == relatedObject[1]
        noId == ~Truthy(Get(given, "id"))
        \* ensure our related object has an id
        withId == IF noId THEN Put(given, "id", uuid(R.next)) ELSE given
        R1 == [assign(R, given, "id", withId.id)
                 EXCEPT !.next = IF noId THEN @ + 1 ELSE @]
        \* unset any other related object that points to this object
        unset == unsetHasOne(R1.db, relation, id, withId.id)
        R2 == [knex(Issue(knex(R1, options, "unset", related), "unset", related, id),
                    options, "select", related)
                 EXCEPT !.db = Update(@, related, unset, (relation.key :> Null))]
        existingRelatedIds == existingIds(R2.db, related, {withId.id})
    IN  IF relatedObject = <<>> THEN Saved(Throw(R), relation, <<>>)
        ELSE IF id = Undef THEN Saved(Throw(R1), relation, <<>>)
        ELSE SavedOne(save(assign(R2, withId, relation.key, id),
                           related, Put(withId, relation.key, id),
                           [options EXCEPT !.exists =
                               IF withId.id \in existingRelatedIds
                               THEN "true" ELSE "false"], env),
                      relation)

(***************************************************************************)
(* destroy and find                                                        *)
(***************************************************************************)
RECURSIVE destroyDependent(_, _, _, _)

\* faulty variant: the dependent rows are destroyed one by one, hooks and all
destroyDependentHooked(R, id, todo, options) ==
    LET tableOf(dr) == IF dr.type = "hasAndBelongsToMany" THEN dr.throughTable ELSE dr.tableName
        keyOf(dr) == IF dr.type = "hasAndBelongsToMany" THEN dr.sourceKey ELSE dr.key
        gone(t) == {r \in R.db[t] : \E dr \in todo : tableOf(dr) = t /\ r[keyOf(dr)] = id}
    IN  [R EXCEPT !.db = [t \in DOMAIN @ |-> @[t] \ gone(t)],
                  !.hooked = @ \o [i \in 1..Cardinality(todo) |->
                      [t |-> "dependent", hookName |-> "beforeDestroy",
                       awaited |-> TRUE, relations |-> {}]]]

\* the deletes of dependentRelations.map, one per relation in todo
destroyDependent(R, id, todo, options) ==
    IF todo = {} THEN R
    ELSE LET dr == CHOOSE r \in todo : TRUE
             habtm == dr.type = "hasAndBelongsToMany"
             tableName == IF habtm THEN dr.throughTable ELSE dr.tableName
             key == IF habtm THEN dr.sourceKey ELSE dr.key
             one == [Issue(knex(R, options, "delete", tableName), "delete", tableName, id)
                       EXCEPT !.db = Delete(@, tableName,
                                            {r \in @[tableName] : r[key] = id})]
         IN  destroyDependent(one, id, todo \ {dr}, options)

\* faulty variant: the delete matches no row
destroyedRowsNone(d, t, id) == {}

\* the rows where({ id }).del() deletes
destroyedRows(d, t, id) == {r \in d[t] : r.id = id}

\* faulty variants: only the join tables are cleaned, only the relations
\* flagged dependent are
dependentRelationsJoinsOnly(rels) ==
    {rels[k] : k \in {x \in DOMAIN rels : rels[x].type = "hasAndBelongsToMany"}}
dependentRelationsFlaggedOnly(rels) ==
    {rels[k] : k \in {x \in DOMAIN rels : rels[x].dependent}}

\* the relations whose rows go with the record
dependentRelations(rels) ==
    {rels[k] : k \in {x \in DOMAIN rels :
        rels[x].dependent \/ rels[x].type = "hasAndBelongsToMany"}}

\* Model.destroy of one record on the model of table t
destroy(R, t, object, options, env) ==
    LET rels == availableRelations(scn, t)
        id == Get(object, "id")
        \* beforeDestroy hook can cancel the destroy
        R1 == IF options.skipHooks THEN [R EXCEPT !.canc = FALSE]
              ELSE runHooks(R, t, <<"beforeDestroy">>, object, env)
        R2 == [Issue(knex(R1, options, "delete", t), "delete", t, id)
                 EXCEPT !.db = Delete(@, t, destroyedRows(@, t, id))]
        R3 == destroyDependent(R2, id, dependentRelations(rels), options)
        R4 == IF options.skipHooks THEN R3 ELSE runHook(R3, t, "afterDestroy", object)
    IN  IF R1.canc THEN [R1 EXCEPT !.ret = object]
        ELSE IF id = Undef THEN Throw(R1)
        ELSE Return(R4, object)

\* Model.find(id): where({ id }).first() with no relation included;
\* <<>> is null
find(d, t, id) ==
    LET results == {r \in d[t] : r.id = id}
    IN  IF results = {} THEN <<>> ELSE <<CHOOSE r \in results : TRUE>>

(***************************************************************************)
(* Eager loading (Model.include(...).all()).  The database returns the     *)
(* rows of a table in an order of its own: order[t] lists the rows of t.   *)
(***************************************************************************)
Filter(rows, S) == LET In(r) == r \in S IN SelectSeq(rows, In)
\* rows.find(...): <<>> is undefined
First(rows) == IF rows = <<>> THEN <<>> ELSE <<rows[1]>>

\* availableRelations[relationName]: <<>> is undefined
relationNamed(rels, relationName) ==
    IF relationName \in DOMAIN rels THEN <<rels[relationName]>> ELSE <<>>

\* how the loading of one relation ends: relation.tableName is read first,
\* the test for an unknown name comes after it
loadError(relation) ==
    IF relation = <<>> THEN "TypeError"
    ELSE IF relation = <<>> THEN "RelationError"
    ELSE "none"

\* the rows and the join rows loaded for one relation of the results
loaded(d, relation, results, order) ==
    LET ids == {results[i].id : i \in DOMAIN results}
        joins == IF relation.type = "hasAndBelongsToMany"
                 THEN {j \in d[relation.throughTable] : j[relation.sourceKey] \in ids}
                 ELSE {}
        throughIds == {j[relation.key] : j \in joins}
        relationIds == {Get(results[i], relation.key) : i \in DOMAIN results}
        rows == CASE relation.type = "hasAndBelongsToMany" ->
                       {r \in d[relation.tableName] : r.id \in throughIds}
                  [] relation.type = "belongsTo" ->
                       {r \in d[relation.tableName] : r.id \in relationIds}
                  [] OTHER ->
                       {r \in d[relation.tableName] : r[relation.key] \in ids}
    IN  [name |-> relation.name, properties |-> relation, joins |-> joins,
         rows |-> Filter(order[relation.tableName], rows)]

\* faulty variant: every loaded row is grafted on every result
graftedAllRows(relation, result) == relation.rows

\* the value grafted on one result for one loaded relation
grafted(relation, result) ==
    LET properties == relation.properties
        pointing == {r \in Elements(relation.rows) : Get(r, properties.key) = result.id}
        joinIds == {j[properties.key] :
                       j \in {x \in relation.joins : x[properties.sourceKey] = result.id}}
    IN  CASE properties.type = "belongsTo" ->
               First(Filter(relation.rows,
                            {r \in Elements(relation.rows) : r.id = Get(result, properties.key)}))
          [] properties.type = "hasMany" -> Filter(relation.rows, pointing)
          [] properties.type = "hasOne" -> First(Filter(relation.rows, pointing))
          [] OTHER ->
               Filter(relation.rows, {r \in Elements(relation.rows) : r.id \in joinIds})

\* relations.forEach on one result, from the i-th included relation on
RECURSIVE graft(_, _, _, _, _, _, _)
graft(d, rels, results, names, order, result, i) ==
    IF i > Len(names) THEN result
    ELSE graft(d, rels, results, names, order,
               Put(result, names[i],
                   grafted(loaded(d, rels[names[i]], results, order), result)),
               i + 1)

\* faulty variant: nothing is loaded
loadQueriesNone(R, rels, names, options, i) == R

\* the queries that load the included relations, from the i-th on
RECURSIVE loadQueries(_, _, _, _, _)
loadQueries(R, rels, names, options, i) ==
    IF i > Len(names) THEN R
    ELSE loadQueries(
             knex(IF rels[names[i]].type = "hasAndBelongsToMany"
                  THEN knex(R, options, "select", rels[names[i]].throughTable)
                  ELSE R,
                  options, "select", rels[names[i]].tableName),
             rels, names, options, i + 1)

includeRelations(R, t, results, names, options, order) ==
    LET rels == availableRelations(scn, t)
        failed == {i \in DOMAIN names : loadError(relationNamed(rels, names[i])) # "none"}
    IN  IF Len(results) = 0 THEN Return(R, results)
        ELSE IF Len(names) = 0 THEN Return(R, results)
        ELSE IF failed # {} THEN Throw(R)
        ELSE Return(loadQueries(R, rels, names, options, 1),
                    [i \in DOMAIN results |->
                        graft(R.db, rels, results, names, order, results[i], 1)])
\* the class of the error includeRelations throws
includeError(t, results, names) ==
    LET rels == availableRelations(scn, t)
        failed == {i \in DOMAIN names : loadError(relationNamed(rels, names[i])) # "none"}
    IN  IF Len(results) = 0 \/ failed = {} THEN "none"
        ELSE loadError(relationNamed(rels, names[CHOOSE i \in failed : \A j \in failed : i <= j]))

\* Model.include(...names).all()
all(R, t, names, options, order) ==
    includeRelations(Issue(knex(R, options, "select", t), "select", t, "*"),
                     t, order[t], names, options, order)

(***************************************************************************)
(* The callers: what they pass to save and destroy                         *)
(***************************************************************************)
Names == {"A"}
CallerIds(t) ==
    CASE t = "users" -> {"u1"}
      [] t = "projects" -> {"p1"}
      [] t = "profiles" -> {"f1"}
      [] OTHER -> {}

RECURSIVE SeqsUpTo(_, _)
SeqsUpTo(S, n) ==
    IF n = 0 THEN {<<>>}
    ELSE LET shorter == SeqsUpTo(S, n - 1)
         IN  shorter \cup {Append(q, x) : q \in shorter, x \in S}

\* a record literal of table t with no relation attached
Plain(t) ==
    {[name |-> n] : n \in Names}
    \cup {[id |-> i, name |-> n] : i \in CallerIds(t), n \in Names}

\* the values a caller attaches to a relation field
RelationValues(relation) ==
    IF relation.many
    THEN SeqsUpTo(Plain(relation.tableName), MaxList)
    ELSE {<<>>} \cup {<<v>> : v \in Plain(relation.tableName)}

\* the record literals a caller saves on table t
Literals(t) ==
    LET rels == availableRelations(scn, t)
    IN  Plain(t) \cup
        UNION {{Put(o, k, v) : o \in Plain(t), v \in RelationValues(rels[k])} :
                  k \in DOMAIN rels}

\* the tables whose hooks a save of object on table t can reach
Reached(t, object) ==
    {t} \cup {availableRelations(scn, t)[k].tableName :
                 k \in {x \in DOMAIN object \cap DOMAIN availableRelations(scn, t) :
                           object[x] # <<>>}}

\* the environment of one call: the hooks that throw in it (none, one hook
\* of the table, or the hooks of a related table), what new Date() reads
\* first and later in the call, and whether the hooks return promises
Envs(t, others, hooks) ==
    {[thr |-> th, times |-> <<Time(calls + 1), Time(calls + 1)>>, promise |-> FALSE] :
        th \in {{}} \cup {{<<t, h>>} : h \in hooks}
                  \cup {{<<o, h>> : h \in hooks} : o \in others}}

\* the record of a call; prev is what is kept of the call before it when
\* this call is made with the record that call returned
NoPrev == [thr |-> {}, canc |-> FALSE, log |-> <<>>, created |-> FALSE]
Prev ==
    [thr |-> last.env.thr, canc |-> last.canc, log |-> last.log,
     created |-> ~last.canc /\ ~HasId(last.pre, last.table, Get(last.ret, "id"))]
Call(op, again, t, object, options, env, R, prev) ==
    [op |-> op, again |-> again, table |-> t, object |-> object,
     options |-> options, env |-> env, ret |-> R.ret, err |-> R.err,
     canc |-> R.canc, log |-> R.log, via |-> R.via, hooked |-> R.hooked, set |-> R.set, wrote |-> R.wrote, pre |-> db, n0 |-> next,
     prev |-> prev]

NoCall ==
    [op |-> "none", again |-> FALSE, table |-> "", object |-> Empty,
     options |-> NoOptions, env |-> [thr |-> {}, times |-> <<Time(1), Time(1)>>, promise |-> FALSE],
     ret |-> Empty, err |-> FALSE, canc |-> FALSE, log |-> <<>>, via |-> <<>>, hooked |-> <<>>, set |-> <<>>, wrote |-> <<>>,
     pre |-> [t \in Tables(scn) |-> {}], n0 |-> 0, prev |-> NoPrev]

Init ==
    /\ scn \in Schemas
    /\ db = [t \in Tables(scn) |-> {}]
    /\ next = 0
    /\ calls = 0
    /\ last = NoCall
    /\ ctx = [t \in Models(scn) |-> <<>>]
    /\ database = Connected

Done(op, again, t, object, options, env, R, prev) ==
    /\ calls < MaxCalls
    /\ R.next <= MaxGen
    /\ db' = R.db
    /\ next' = R.next
    /\ calls' = calls + 1
    /\ last' = Call(op, again, t, object, options, env, R, prev)
    /\ UNCHANGED <<scn, ctx, database>>

\* Model.save(object) with a record literal
Save ==
    \E t \in Models(scn) : \E object \in Literals(t) :
    \E env \in Envs(t, Reached(t, object) \ {t}, {"beforeCreate", "beforeSave"}) :
        Done("save", FALSE, t, object, NoOptions, env,
             save(Start(db, next), t, object, NoOptions, env), NoPrev)

\* Model.save(saved) with the record the last save returned
SaveAgain ==
    /\ last.op = "save" /\ ~last.err
    /\ \E env \in Envs(last.table, Reached(last.table, last.ret) \ {last.table},
                        {"beforeCreate", "beforeSave"}) :
        Done("save", TRUE, last.table, last.ret, NoOptions, env,
             save(Start(db, next), last.table, last.ret, NoOptions, env), Prev)

\* Model.destroy(record) with a record loaded from the table
Destroy ==
    \E t \in Models(scn) : \E object \in db[t] :
    \E e \in Envs(t, {}, {"beforeDestroy"}) : \E promise \in BOOLEAN :
        LET env == [e EXCEPT !.promise = promise]
        IN  Done("destroy", FALSE, t, object, NoOptions, env,
                 destroy(Start(db, next), t, object, NoOptions, env), NoPrev)

\* Model.destroy(saved) with the record the last save returned
DestroySaved ==
    /\ last.op = "save" /\ ~last.err
    /\ \E e \in Envs(last.table, {}, {"beforeDestroy"}) : \E promise \in BOOLEAN :
        LET env == [e EXCEPT !.promise = promise]
        IN  Done("destroy", TRUE, last.table, last.ret, NoOptions, env,
                 destroy(Start(db, next), last.table, last.ret, NoOptions, env), Prev)

\* the orders in which the database may return the rows of the tables T
RECURSIVE Perms(_)
Perms(S) == IF S = {} THEN {<<>>} ELSE UNION {{<<x>> \o p : p \in Perms(S \ {x})} : x \in S}
RECURSIVE Orders(_, _)
Orders(d, T) == IF T = {} THEN {Empty} ELSE LET t == CHOOSE x \in T : TRUE IN {(t :> p) @@ o : p \in Perms(d[t]), o \in Orders(d, T \ {t})}

\* the relation names a caller includes: none, a relation of the table, or
\* a name the table does not register
Included(t) ==
    {<<>>} \cup {<<k>> : k \in DOMAIN availableRelations(scn, t) \cup {"unknown"}}
TablesRead(t, names) ==
    {t} \cup {availableRelations(scn, t)[k].tableName :
                 k \in Elements(names) \cap DOMAIN availableRelations(scn, t)}

\* Model.include(...names).all() on any table of the database
All ==
    \E t \in Tables(scn) : \E names \in Included(t) :
    \E order \in Orders(db, TablesRead(t, names)) :
        /\ last' = [error |-> includeError(t, order[t], names)]
                   @@ Call("all", FALSE, t, names, NoOptions, NoCall.env,
                           all(Start(db, next), t, names, NoOptions, order), NoPrev)
        /\ UNCHANGED <<scn, db, next, calls, ctx, database>>

Next == Save \/ SaveAgain \/ Destroy \/ DestroySaved \/ All

Spec == Init /\ [][Next]_vars

(***************************************************************************)
(* Saves during which the clock moves on: the new Date() of the top-level  *)
(* save reads one time, every new Date() after it in the call a later one  *)
(***************************************************************************)
Advancing == [thr |-> {}, times |-> <<Time(calls + 1), Later(calls + 1)>>, promise |-> FALSE]

\* Model.save(object) with a record literal
SaveAdvancing ==
    \E t \in Models(scn) : \E object \in Literals(t) :
        Done("save", FALSE, t, object, NoOptions, Advancing,
             save(Start(db, next), t, object, NoOptions, Advancing), NoPrev)

\* Model.save(saved) with the record the last save returned
SaveAgainAdvancing ==
    /\ last.op = "save" /\ ~last.err
    /\ Done("save", TRUE, last.table, last.ret, NoOptions, Advancing,
            save(Start(db, next), last.table, last.ret, NoOptions, Advancing), Prev)

NextClock == SaveAdvancing \/ SaveAgainAdvancing

SpecClock == Init /\ [][NextClock]_vars

(***************************************************************************)
(* Saves that hand an exists flag down: save(object, { exists }) by the    *)
(* caller, and saves of records whose related records have related records *)
(* of their own                                                            *)
(***************************************************************************)
MaxDeepList == 1    \* longest list of records that carry relations themselves

\* the values a caller attaches to a relation field, the related records
\* having relations attached in turn
DeepValues(relation) ==
    IF relation.many
    THEN SeqsUpTo(Literals(relation.tableName), MaxDeepList) \ {<<>>}
    ELSE {<<v>> : v \in Literals(relation.tableName)}

DeepLiterals(t) ==
    LET rels == availableRelations(scn, t)
    IN  UNION {{Put(o, k, v) : o \in Plain(t), v \in DeepValues(rels[k])} :
                  k \in DOMAIN rels}

\* no hook throws and the clock stands still during a call
Calm == [NoCall.env EXCEPT !.times = <<Time(calls + 1), Time(calls + 1)>>]

\* Model.save(object, { exists }) with a record literal
SaveFlagged ==
    \E t \in Models(scn) : \E object \in Literals(t) : \E exists \in {"true", "false"} :
        LET options == [NoOptions EXCEPT !.exists = exists]
        IN  Done("save", FALSE, t, object, options, Calm,
                 save(Start(db, next), t, object, options, Calm), NoPrev)

\* Model.save(object) with a record literal two relations deep
SaveDeep ==
    \E t \in Models(scn) : \E object \in DeepLiterals(t) :
        Done("save", FALSE, t, object, NoOptions, Calm,
             save(Start(db, next), t, object, NoOptions, Calm), NoPrev)

NextFlagged == SaveFlagged \/ SaveDeep

SpecFlagged == Init /\ [][NextFlagged]_vars

(***************************************************************************)
(* Two saves in flight at once (two calls, or the two elements of          *)
(* save([a, b]), which Promise.all starts together).  Each is a save of a  *)
(* record with an id and no relation attached, no flag given and no hook   *)
(* throwing; its queries are the steps: the question whether the row       *)
(* exists, then the insert or the update.  last holds the two calls.       *)
(***************************************************************************)
RacingIds(t) == CallerIds(t) \cup {"r1"}
Racing == UNION {{[t |-> t, object |-> [id |-> i, name |-> n]] : i \in RacingIds(t), n \in Names} : t \in {"users", "projects"}}
Stored(t, id) == InsertRow(t, [id |-> id, name |-> "B", createdAt |-> Time(1), updatedAt |-> Time(1)])

\* a call up to its first await: the record prepared, the question issued
called(c, now) ==
    [t |-> c.t, object |-> c.object, pc |-> "asking", exists |-> FALSE,
     savingObject |-> Put([k \in DOMAIN c.object |-> Normalise(c.object[k])], "updatedAt", now)]

\* faulty variant: an update without its where clause
writtenEverywhere(d, c) ==
    IF c.exists THEN Update(d, c.t, d[c.t], c.savingObject)
    ELSE Insert(d, c.t, Put(c.savingObject, "createdAt", c.savingObject.updatedAt))

\* the storage after the write of call c
written(d, c) ==
    IF c.exists THEN Update(d, c.t, {r \in d[c.t] : r.id = c.savingObject.id}, c.savingObject)
    ELSE Insert(d, c.t, Put(c.savingObject, "createdAt", c.savingObject.updatedAt))

InitRace ==
    /\ scn = "hasMany"
    /\ \E have \in SUBSET {<<c.t, c.object.id>> : c \in Racing} :
        db = [t \in Tables(scn) |-> {Stored(p[1], p[2]) : p \in {q \in have : q[1] = t}}]
    /\ next = 0
    /\ calls = 0
    /\ ctx = [t \in Models(scn) |-> <<>>]
    /\ database = Connected
    /\ \E a \in Racing : \E b \in Racing : \E now \in {Time(2), Later(2)} :
        last = [op |-> "concurrent", pre |-> db,
                saves |-> <<called(a, Time(2)), called(b, now)>>]

\* the answer to where({ id }) of one of the calls
Ask ==
    /\ last.op = "concurrent"
    /\ \E i \in DOMAIN last.saves :
        /\ last.saves[i].pc = "asking"
        /\ last' = [last EXCEPT !.saves[i].pc = "writing",
                                 !.saves[i].exists = HasId(db, last.saves[i].t,
                                                           last.saves[i].savingObject.id)]
        /\ UNCHANGED <<scn, db, next, calls, ctx, database>>

\* the insert or the update of one of the calls; a rejected query ends it
Write ==
    /\ last.op = "concurrent"
    /\ \E i \in DOMAIN last.saves :
        LET c == last.saves[i]
            ok == IF c.exists THEN UpdateOk(c.t, c.savingObject)
                  ELSE InsertOk(db, c.t, Put(c.savingObject, "createdAt", c.savingObject.updatedAt))
        IN  /\ c.pc = "writing"
            /\ db' = IF ok THEN written(db, c) ELSE db
            /\ last' = [last EXCEPT !.saves[i].pc = IF ok THEN "saved" ELSE "failed"]
            /\ UNCHANGED <<scn, next, calls, ctx, database>>

NextRace == Ask \/ Write

SpecRace == InitRace /\ [][NextRace]_vars

(***************************************************************************)
(* Destroys on a schema two relations deep                                 *)
(***************************************************************************)
InitCascade ==
    /\ scn = "cascade"
    /\ db = [t \in Tables(scn) |-> {}]
    /\ next = 0
    /\ calls = 0
    /\ last = NoCall
    /\ ctx = [t \in Models(scn) |-> <<>>]
    /\ database = Connected

NextCascade == SaveDeep \/ Destroy

SpecCascade == InitCascade /\ [][NextCascade]_vars

(***************************************************************************)
(* Registrations: new Model({ tableName, relations }) with one relation    *)
(* declared, and with the two sides of a many-to-many pair.  last holds    *)
(* what was declared and the definitions the constructor derived.          *)
(***************************************************************************)
TableNames == {"users", "projects", "profiles"}
Words == TableNames \cup {singularize(w) : w \in TableNames}
\* the optional keys of a declaration: absent, or given
Optional(v) == {Undef, v}
Declarations ==
    {[Decl EXCEPT ![type] = word, !.dependent = dep, !.through = th,
                  !.primaryKey = pk, !.foreignKey = fk, !.table = tb] :
        type \in {"hasAndBelongsToMany", "belongsTo", "hasMany", "hasOne"},
        word \in Words, dep \in BOOLEAN, th \in Optional("joins"),
        pk \in Optional("ownerId"), fk \in Optional("otherId"), tb \in Optional("others")}

\* new Model({ tableName, relations: { [relationName]: relation } })
Register ==
    /\ last = NoCall
    /\ \E tableName \in TableNames : \E relationName \in Words :
       \E relation \in Declarations :
        last' = [op |-> "model", tableName |-> tableName, relationName |-> relationName,
                 declared |-> relation,
                 relation |-> Relation(tableName, relationName, relation)]
    /\ UNCHANGED <<scn, db, next, calls, ctx, database>>

\* the two registrations of a many-to-many pair, each side naming its
\* relation after the other table, with no optional key given
RegisterPair ==
    /\ last = NoCall
    /\ \E a \in TableNames : \E b \in TableNames \ {a} :
       \E toB \in {b, singularize(b)} : \E toA \in {a, singularize(a)} :
        last' = [op |-> "models", a |-> a, b |-> b,
                 ofA |-> Relation(a, toB, [Decl EXCEPT !.hasAndBelongsToMany = b]),
                 ofB |-> Relation(b, toA, [Decl EXCEPT !.hasAndBelongsToMany = a])]
    /\ UNCHANGED <<scn, db, next, calls, ctx, database>>

NextRegistry == Register \/ RegisterPair

SpecRegistry == Init /\ [][NextRegistry]_vars

(***************************************************************************)
(* Table handles: Database.model registers one Model per table name in     *)
(* database.models; where, order, page and include build further Models    *)
(* from a handle.  A handle is the options object of its Model; a query    *)
(* builder is the sequence of its table and its clauses; an option that is *)
(* a list or an object is empty when it is absent.  database.given keeps   *)
(* the options of the call that registered each table.                     *)
(***************************************************************************)
MaxClauses == 2
HandleTables == {"users", "projects"}
DeclaredFor(t) ==
    IF t = "users"
    THEN ("projects" :> [Decl EXCEPT !.hasMany = "projects"])
    ELSE ("user" :> [Decl EXCEPT !.belongsTo = "user"])
ModelOptions(t) ==
    [relations : {<<>>, DeclaredFor(t)}, hooks : {Undef, "hooks1"},
     contexts : {Undef, "contexts1"}]

\* faulty variant: every call builds the handle anew
modelAnew(D, tableName, options) ==
    [D EXCEPT !.models = (tableName :>
                    ([tableName |-> tableName, defaultScope |-> <<>>,
                      availableRelations |-> <<>>, includedRelations |-> <<>>]
                     @@ options)) @@ @,
              !.given = IF tableName \in DOMAIN @ THEN @ ELSE (tableName :> options) @@ @]

\* new Model(options): the relations declared are registered on the options
newModel(options) ==
    IF DOMAIN options.relations = {}
    THEN options
    ELSE [options EXCEPT !.availableRelations =
            [k \in DOMAIN options.relations |->
                Relation(options.tableName, k, options.relations[k])]]

\* Database.model(tableName, options): the Database after the call
model(D, tableName, options) ==
    IF tableName \in DOMAIN D.models
    THEN D
    ELSE [D EXCEPT !.models = (tableName :>
                        newModel([tableName |-> tableName, defaultScope |-> <<>>,
                                  availableRelations |-> <<>>,
                                  includedRelations |-> <<>>] @@ options)) @@ @,
                   !.given = (tableName :> options) @@ @]

\* Model.query(): the default scope, else a builder on the table
query(handle) ==
    IF handle.defaultScope # <<>> THEN handle.defaultScope ELSE <<handle.tableName>>

\* Model.chain(query, options)
chain(handle, scope, options) ==
    newModel([options @@ handle EXCEPT !.defaultScope = scope])

\* the handles a call can be made on: the registered ones and the one the
\* last call returned
Handles == {database.models[t] : t \in DOMAIN database.models} \cup
           (IF last.op \in {"model", "scope", "include"} THEN {last.returned} ELSE {})

\* the relation definitions are objects the handles of a table share: the
\* constructor of a chained handle writes them again
Shared(D, handle) ==
    [D EXCEPT !.models[handle.tableName].availableRelations = handle.availableRelations]

InitModels ==
    /\ scn = "hasMany"
    /\ db = [t \in Tables(scn) |-> {}]
    /\ next = 0
    /\ calls = 0
    /\ last = NoCall
    /\ ctx = [t \in Models(scn) |-> <<>>]
    /\ database = [models |-> <<>>, given |-> <<>>]

\* database.model(tableName, options)
ModelCalled ==
    /\ \E tableName \in HandleTables : \E options \in ModelOptions(tableName) :
        /\ database' = model(database, tableName, options)
        /\ last' = [op |-> "model", tableName |-> tableName, options |-> options,
                    on |-> <<>>, returned |-> database'.models[tableName]]
    /\ UNCHANGED <<scn, db, next, calls, ctx>>

\* handle.where(...), handle.order(...), handle.page(...)
ScopeCalled ==
    /\ \E handle \in Handles : \E clause \in {"where", "order", "page"} :
        /\ Len(query(handle)) <= MaxClauses
        /\ LET returned == chain(handle, Append(query(handle), clause), <<>>)
           IN  /\ last' = [op |-> "scope", tableName |-> handle.tableName,
                           options |-> clause, on |-> handle, returned |-> returned]
               /\ database' = Shared(database, returned)
    /\ UNCHANGED <<scn, db, next, calls, ctx>>

\* handle.include(...includedRelations)
IncludeCalled ==
    /\ \E handle \in Handles : \E includedRelations \in {<<"projects">>, <<"user">>} :
        LET returned == chain(handle, query(handle),
                              [includedRelations |-> includedRelations])
        IN  /\ last' = [op |-> "include", tableName |-> handle.tableName,
                        options |-> includedRelations, on |-> handle,
                        returned |-> returned]
            /\ database' = Shared(database, returned)
    /\ UNCHANGED <<scn, db, next, calls, ctx>>

NextModels == ModelCalled \/ ScopeCalled \/ IncludeCalled

SpecModels == InitModels /\ [][NextModels]_vars

(***************************************************************************)
(* Transactions (Database.transaction).  A call made with the transaction  *)
(* option works on the transaction's view of the storage; what it wrote    *)
(* reaches db, the storage every other connection reads, at the commit.    *)
(* A query that is not bound to the transaction is outside of it, and so   *)
(* is what the call wrote.                                                 *)
(***************************************************************************)
InTransaction == [NoOptions EXCEPT !.transaction = TRUE]
\* the view of the transaction that is open, if one is
View == IF "view" \in DOMAIN last /\ last.op # "commit" THEN last.view ELSE db

DoneIn(op, t, object, R) ==
    /\ calls < MaxCalls
    /\ R.next <= MaxGen
    /\ db' = IF \A i \in DOMAIN R.via : R.via[i].transaction THEN db ELSE R.db
    /\ next' = R.next
    /\ calls' = calls + 1
    /\ last' = [view |-> R.db]
               @@ Call(op, FALSE, t, object, InTransaction, NoCall.env, R, NoPrev)
    /\ UNCHANGED <<scn, ctx, database>>

\* Model.save(object, { transaction }), which Model.create comes to
SaveIn ==
    \E t \in Models(scn) : \E object \in Literals(t) :
        DoneIn("save", t, object,
               save(Start(db, next), t, object, InTransaction, NoCall.env))

\* Model.destroy(record, { transaction })
DestroyIn ==
    \E t \in Models(scn) : \E object \in db[t] :
        DoneIn("destroy", t, object,
               destroy(Start(db, next), t, object, InTransaction, NoCall.env))

\* Model.bulkDestroy({ transaction }): query.del() on the whole table
BulkDestroyIn ==
    \E t \in Tables(scn) :
        /\ db[t] # {}
        /\ DoneIn("bulkDestroy", t, Empty,
                  [Issue(knex(Start(db, next), InTransaction, "delete", t),
                         "delete", t, "*")
                     EXCEPT !.db = [@ EXCEPT ![t] = {}]])

\* Model.include(...names).all({ transaction }), in the transaction that is
\* open or in one of its own
AllIn ==
    \E t \in Tables(scn) : \E names \in Included(t) :
    \E order \in Orders(View, TablesRead(t, names)) :
        /\ last' = [view |-> View, error |-> includeError(t, order[t], names)]
                   @@ Call("all", FALSE, t, names, InTransaction, NoCall.env,
                           all(Start(View, next), t, names, InTransaction, order),
                           NoPrev)
        /\ UNCHANGED <<scn, db, next, calls, ctx, database>>

\* the handler of Database.transaction returns: the transaction commits
Commit ==
    /\ "view" \in DOMAIN last /\ last.op # "commit" /\ ~last.err
    /\ db' = last.view
    /\ last' = [last EXCEPT !.op = "commit"]
    /\ UNCHANGED <<scn, next, calls, ctx, database>>

NextTransaction == SaveIn \/ DestroyIn \/ BulkDestroyIn \/ AllIn \/ Commit

SpecTransaction == Init /\ [][NextTransaction]_vars

(***************************************************************************)
(* Contexts (Model.withContext).  A context is a name, a list of field     *)
(* names or a function.  options.contexts of a table is <<>> (undefined)   *)
(* or <<c>>, c being the object whose keys are the registered names.  The  *)
(* outcome of a call is a value, or a thrown ContextError.                 *)
(***************************************************************************)
Str(name) == [kind |-> "string", v |-> <<name>>]
Arr(keys) == [kind |-> "array", v |-> keys]
Fun(f) == [kind |-> "function", v |-> <<f>>]
Undefined == [kind |-> "undefined", v |-> <<>>]

Value(v) == [err |-> FALSE, val |-> v]
ContextError == [err |-> TRUE, val |-> <<>>]

\* what an object literal inherits from Object.prototype
ObjectPrototype == [constructor |-> Fun("Object")]

\* contexts[name]: an own property of the object, or else an inherited one
Lookup(contexts, name) ==
    IF name \in DOMAIN contexts THEN contexts[name]
    ELSE IF name \in DOMAIN ObjectPrototype THEN ObjectPrototype[name]
    ELSE Undefined

\* context({ ...object }) for the functions of the model: Object returns
\* the copy it is given, special adds a key to it
Apply(f, copy) == IF f = "Object" THEN copy ELSE Put(copy, "isSpecial", "true")

\* object[key] is truthy: a list always is, null and "" never are
Has(object, key, rels) ==
    IF key \in DOMAIN rels
    THEN key \in DOMAIN object /\ (rels[key].many \/ object[key] # <<>>)
    ELSE Truthy(Get(object, key))

\* the first steps of withContext: the default marker, then a name
Resolved(out, contextName, context) ==
    [out |-> out, contextName |-> contextName, context |-> context]
resolveDefault(contexts, context) ==
    IF context.kind = "string" /\ context.v = <<"default">> THEN
        IF contexts = <<>> THEN Resolved("return", Undef, context)
        ELSE IF Lookup(contexts[1], "default").kind = "undefined"
        THEN Resolved("return", Undef, context)
        ELSE Resolved("go", "default", Lookup(contexts[1], "default"))
    ELSE Resolved("go", Undef, context)
resolveName(contexts, r) ==
    IF r.out = "go" /\ r.context.kind = "string" THEN
        IF contexts = <<>> THEN Resolved("throw", Undef, r.context)
        ELSE IF Lookup(contexts[1], r.context.v[1]).kind = "undefined"
        THEN Resolved("throw", Undef, r.context)
        ELSE Resolved("go", r.context.v[1], Lookup(contexts[1], r.context.v[1]))
    ELSE r

\* relatedContext || "default", relatedContext being
\* RelatedModel.options.contexts && RelatedModel.options.contexts[contextName]
relatedContext(contexts, contextName) ==
    IF contexts = <<>> THEN Str("default")
    ELSE IF Lookup(contexts[1], contextName).kind = "undefined" THEN Str("default")
    ELSE IF Lookup(contexts[1], contextName) = Str("") THEN Str("default")
    ELSE Lookup(contexts[1], contextName)

RECURSIVE withContext(_, _, _, _, _, _)
RECURSIVE withContextEach(_, _, _, _, _, _, _)
RECURSIVE withContextNext(_, _, _, _, _, _, _, _)
RECURSIVE withResolved(_, _, _, _, _)
RECURSIVE project(_, _, _, _, _, _, _, _)
RECURSIVE projectKey(_, _, _, _, _, _, _, _, _)
RECURSIVE projectRelated(_, _, _, _, _, _, _, _, _, _)

\* newObject[key] = RelatedModel.withContext(results[key], ...), and on to
\* the next key; an error thrown by the inner call leaves the loop
projectRelated(s, c, t, object, keys, contextName, i, newObject, relation, inner) ==
    IF inner.err THEN inner
    ELSE project(s, c, t, object, keys, contextName, i + 1,
                 Put(newObject, keys[i], IF relation.many THEN inner.val ELSE <<inner.val>>))

\* one turn of context.forEach
projectKey(s, c, t, object, keys, contextName, i, newObject, rels) ==
    IF ~Has(object, keys[i], rels)
    THEN project(s, c, t, object, keys, contextName, i + 1, newObject)
    ELSE IF keys[i] \in DOMAIN rels
    THEN projectRelated(s, c, t, object, keys, contextName, i, newObject, rels[keys[i]],
             withContext(s, c, rels[keys[i]].tableName,
                 IF rels[keys[i]].many THEN object[keys[i]] ELSE object[keys[i]][1],
                 rels[keys[i]].many,
                 relatedContext(c[rels[keys[i]].tableName], contextName)))
    ELSE project(s, c, t, object, keys, contextName, i + 1,
                 Put(newObject, keys[i], object[keys[i]]))

\* the projection of object on the list keys, from its i-th name on
project(s, c, t, object, keys, contextName, i, newObject) ==
    IF i > Len(keys) THEN Value(newObject)
    ELSE projectKey(s, c, t, object, keys, contextName, i, newObject,
                    availableRelations(s, t))

\* withContext once the context is known
withResolved(s, c, t, object, r) ==
    IF r.out = "return" THEN Value(object)
    ELSE IF r.out = "throw" THEN ContextError
    ELSE IF r.context.kind = "function" THEN Value(Apply(r.context.v[1], object))
    ELSE IF r.context.kind = "array" /\ Len(r.context.v) > 0 /\ r.context.v[1] # "*"
    THEN project(s, c, t, object, r.context.v, r.contextName, 1, Empty)
    ELSE Value(object)

\* results.map((r) => this.withContext(r, context))
withContextNext(s, c, t, results, context, i, mapped, one) ==
    IF one.err THEN one
    ELSE withContextEach(s, c, t, results, context, i + 1, Append(mapped, one.val))
withContextEachReversed(s, c, t, results, context, i, mapped) ==
    IF i > Len(results) THEN Value(mapped)
    ELSE withContextNext(s, c, t, results, context, i, mapped,
             withContext(s, c, t, results[Len(results) + 1 - i], FALSE, context))
withContextEach(s, c, t, results, context, i, mapped) ==
    IF i > Len(results) THEN Value(mapped)
    ELSE withContextNext(s, c, t, results, context, i, mapped,
             withContext(s, c, t, results[i], FALSE, context))

\* Model.withContext(results, context) of the model of table t
withContext(s, c, t, results, isArray, context) ==
    IF isArray THEN withContextEach(s, c, t, results, context, 1, <<>>)
    ELSE withResolved(s, c, t, results,
                      resolveName(c[t], resolveDefault(c[t], context)))

(***************************************************************************)
(* The callers of withContext: the contexts a program registers, the       *)
(* records it projects and the contexts it asks for                        *)
(***************************************************************************)
RelationNames(s, t) == DOMAIN availableRelations(s, t)

\* the name field and after it the relation fields of table t
RECURSIVE ListOf(_)
ListOf(S) == IF S = {} THEN <<>> ELSE LET x == CHOOSE y \in S : TRUE IN <<x>> \o ListOf(S \ {x})
NameAndRelations(s, t) == <<"name">> \o ListOf(RelationNames(s, t))

\* options.contexts of Database.model(t, ...): none, or simple and default
Only(name, contexts) == IF contexts = {} THEN {Empty} ELSE {Empty} \cup {(name :> x) : x \in contexts}
ContextsOf(s, t) ==
    {<<>>} \cup
    {<<a @@ b>> :
        a \in Only("simple", {Arr(NameAndRelations(s, t)), Fun("special"),
                              Arr(<<"*">>), Arr(<<>>)}),
        b \in Only("default", {Arr(<<"id">>), Str("simple"), Fun("special")})}
Registered(s) ==
    {c \in [Models(s) -> UNION {ContextsOf(s, t) : t \in Models(s)}] :
        \A t \in Models(s) : c[t] \in ContextsOf(s, t)}

\* the records handed to withContext: name is "A", "" or absent; a relation
\* field, when present, holds records of the related table
Flat(t) ==
    {[id |-> i] : i \in CallerIds(t)}
    \cup {[id |-> i, name |-> n] : i \in CallerIds(t), n \in {"A", ""}}
RECURSIVE Nested(_, _, _)
Held(s, relation, depth) ==
    IF relation.many
    THEN SeqsUpTo(Nested(s, relation.tableName, depth), 1)
    ELSE {<<>>} \cup {<<v>> : v \in Nested(s, relation.tableName, depth)}
Nested(s, t, depth) ==
    IF depth = 0 THEN Flat(t)
    ELSE Flat(t) \cup
         UNION {{Put(o, k, v) : o \in Flat(t),
                                v \in Held(s, availableRelations(s, t)[k], depth - 1)} :
                   k \in RelationNames(s, t)}

MaxDepth == 2    \* relation fields nested in a record handed to withContext
Requested == {Str("default"), Str("simple"), Str("unknown"), Str("constructor")}

ContextCall(t, results, isArray, context, R) ==
    [op |-> "withContext", table |-> t, object |-> results, array |-> isArray,
     context |-> context, ret |-> R.val, err |-> R.err]

InitContext ==
    /\ scn = "hasMany"
    /\ db = [t \in Tables(scn) |-> {}]
    /\ next = 0
    /\ calls = 0
    /\ last = NoCall
    /\ ctx \in Registered(scn)
    /\ database = Connected

\* Model.withContext(record, context), or withContext(record): the one call
\* a behaviour makes on the contexts it registered
WithContext ==
    /\ last = NoCall
    /\ \E t \in Models(scn) : \E object \in Nested(scn, t, MaxDepth) :
       \E context \in Requested :
        /\ last' = ContextCall(t, object, FALSE, context,
                       withContext(scn, ctx, t, object, FALSE, context))
        /\ UNCHANGED <<scn, db, next, calls, ctx, database>>

\* Model.withContext(records, context) with an array of records
WithContextOfArray ==
    /\ last = NoCall
    /\ \E t \in Models(scn) : \E results \in SeqsUpTo(Nested(scn, t, 0), MaxList) :
       \E context \in Requested :
        /\ last' = ContextCall(t, results, TRUE, context,
                       withContext(scn, ctx, t, results, TRUE, context))
        /\ UNCHANGED <<scn, db, next, calls, ctx, database>>

NextContext == WithContext \/ WithContextOfArray

SpecContext == InitContext /\ [][NextContext]_vars

(***************************************************************************)
(* The calls made on a Database object                                     *)
(***************************************************************************)
InitDatabase ==
    /\ scn = "hasMany"
    /\ db = [t \in Tables(scn) |-> {}]
    /\ next = 0
    /\ calls = 0
    /\ last = NoCall
    /\ ctx = [t \in Models(scn) |-> <<>>]
    /\ \E env \in NodeEnvs : \E connects \in BOOLEAN : \E arg \in Arguments :
        /\ connects \/ arg = <<>>
        /\ database = constructor(env, connects, arg)

\* Database.connect(connectionOrKnex)
Connect ==
    /\ database.steps < MaxSteps
    /\ \E arg \in Arguments :
        database' = Did(database, "connect", arg, connect(database, arg))
    /\ UNCHANGED <<scn, db, next, calls, last, ctx>>

\* Database.disconnect() up to its await
Disconnect ==
    /\ database.steps < MaxSteps
    /\ database.closing < MaxClosing
    /\ database' = Did(database, "disconnect", <<>>,
                       IF database.isConnected = "true"
                       THEN [database EXCEPT !.closing = @ + 1]
                       ELSE database)
    /\ UNCHANGED <<scn, db, next, calls, last, ctx>>

\* knex.destroy() has finished: the rest of a disconnect() runs
Disconnected ==
    /\ database.closing > 0
    /\ database' = [closed(database) EXCEPT !.op = "disconnected", !.arg = <<>>,
                        !.was = database.isConnected]
    /\ UNCHANGED <<scn, db, next, calls, last, ctx>>

NextDatabase == Connect \/ Disconnect \/ Disconnected

SpecDatabase == InitDatabase /\ [][NextDatabase]_vars

(***************************************************************************)
(* Schema.migrate() and Schema.rollback(): one call, stepped at its awaits.*)
(* last holds the position of the call, the NODE_ENV it found, the number  *)
(* of connections the Database has opened and, for each run of the         *)
(* migration, the connection it was started on.  The disconnect() in the   *)
(* middle is not awaited: its second half is the action Disconnected,      *)
(* which runs whenever knex.destroy() has finished.                        *)
(***************************************************************************)
\* NODE_ENV as the call finds it; it may be unset
MigrateEnvs == NodeEnvs \cup {"development", Undef}
\* a disconnect() up to its await
disconnecting(D) ==
    IF D.isConnected = "true" THEN [D EXCEPT !.closing = @ + 1] ELSE D
\* database.connect(); database.knex.migrate.latest/rollback(...): the
\* connection is counted if connect() opens one, and the run is started on
\* the knex the Database then has
started(M, D) ==
    LET N == IF D.isConnected = "true" THEN M
             ELSE [M EXCEPT !.opened = Append(@, D.NODE_ENV)]
        C == connect(D, <<>>)
    IN  [N EXCEPT !.runs = Append(@, [knex |-> C.knex, connection |-> Len(N.opened),
                                      NODE_ENV |-> C.NODE_ENV,
                                      destroying |-> C.closing > 0])]

InitMigrate ==
    /\ scn = "hasMany"
    /\ db = [t \in Tables(scn) |-> {}]
    /\ next = 0
    /\ calls = 0
    /\ ctx = [t \in Models(scn) |-> <<>>]
    /\ \E op \in {"migrate", "rollback"} : \E env \in MigrateEnvs :
        /\ database = Fresh(env)
        /\ last = [op |-> op, pc |-> "called", found |-> env, opened |-> <<>>,
                   runs |-> <<>>, previousNodeEnv |-> Undef, threw |-> FALSE,
                   caught |-> FALSE]

\* new Database(); database.connect(); the migration is started on the main
\* database
MigrateMain ==
    /\ last.pc = "called"
    /\ database' = connect(constructor(database.NODE_ENV, TRUE, <<>>), <<>>)
    /\ last' = [started(last, database) EXCEPT !.pc = "main"]
    /\ UNCHANGED <<scn, db, next, calls, ctx>>

\* the first run is over: if it threw, so does the call; else disconnect()
\* is called and not awaited, NODE_ENV is set to test, connect() is called
\* and the migration is started again
MigrateTest ==
    /\ last.pc = "main"
    /\ \E threw \in BOOLEAN :
        IF threw
        THEN /\ last' = [last EXCEPT !.pc = "returned", !.threw = TRUE]
             /\ UNCHANGED database
        ELSE LET D == [disconnecting(database) EXCEPT !.NODE_ENV = "test"]
             IN  /\ database' = connect(D, <<>>)
                 /\ last' = [started(last, D) EXCEPT !.pc = "test",
                                !.previousNodeEnv = database.NODE_ENV]
    /\ UNCHANGED <<scn, db, next, calls, ctx>>

\* the second run is over, and what it threw is caught: NODE_ENV is
\* assigned the value kept (the environment holds strings: undefined is
\* stored as "undefined") and disconnect() is called and awaited
Restore ==
    /\ last.pc = "test"
    /\ database' = disconnecting([database EXCEPT !.NODE_ENV =
                        IF last.previousNodeEnv = Undef THEN "undefined"
                        ELSE last.previousNodeEnv])
    /\ \E caught \in BOOLEAN :
        last' = [last EXCEPT !.caught = caught,
                             !.pc = IF database.isConnected = "true"
                                    THEN "closing" ELSE "returned"]
    /\ UNCHANGED <<scn, db, next, calls, ctx>>

\* the awaited disconnect() is over: the call returns
MigrateReturns ==
    /\ last.pc = "closing"
    /\ database.closing = 0
    /\ last' = [last EXCEPT !.pc = "returned"]
    /\ UNCHANGED <<scn, db, next, calls, ctx, database>>

NextMigrate == MigrateMain \/ MigrateTest \/ Restore \/ MigrateReturns \/ Disconnected

SpecMigrate == InitMigrate /\ [][NextMigrate]_vars

(***************************************************************************)
(* Vocabulary of the properties.  They speak of the last call: what it was *)
(* given (last.object), the storage before it (last.pre) and after it      *)
(* (db), what it returned (last.ret) and what it ran and issued (last.log).*)
(***************************************************************************)
Rows(d, t, id) == {r \in d[t] : r.id = id}

\* the call ran to its end: it did not throw and no hook cancelled it
Completed == ~last.err /\ ~last.canc
\* no hook threw during the call
NoHookThrew == last.env.thr = {}

\* the hooks of table t in a log, and the queries of a log
HooksOf(log, t) ==
    LET hs == SelectSeq(log, LAMBDA e : e[1] = "hook" /\ e[2] = t)
    IN  [i \in DOMAIN hs |-> hs[i][3]]
Queries(log) == SelectSeq(log, LAMBDA e : e[1] # "hook")
Issued(log, kind, t) ==
    {log[i][3] : i \in {j \in DOMAIN log : log[j][1] = kind /\ log[j][2] = t}}
Count(log, kind, t, arg) ==
    Cardinality({i \in DOMAIN log : log[i] = Ev(kind, t, arg)})

\* the id the saved record has: the one given, else the one generated first
SavedId == IF Get(last.object, "id") # Undef THEN last.object.id ELSE uuid(last.n0)

\* the relation of the last call's table that has the given type, attached
\* to the record the call was given
Attached(type) ==
    {k \in DOMAIN last.object \cap DOMAIN availableRelations(scn, last.table) :
        availableRelations(scn, last.table)[k].type = type}
\* the one relation of that type attached, its definition and its value
TheRelation(type) ==
    availableRelations(scn, last.table)[CHOOSE k \in Attached(type) : TRUE]
Given(type) == last.object[TheRelation(type).name]
Returned(type) == last.ret[TheRelation(type).name]
\* the rows of table t whose column key holds id
Pointing(d, t, key, id) == {r \in d[t] : r[key] = id}
WithIds(objs) == \A i \in DOMAIN objs : Truthy(Get(objs[i], "id"))

(***************************************************************************)
(* C1: saving a record and then saving the returned record again leaves    *)
(* exactly one row with its id; the first save inserts iff no row with the *)
(* id existed, the second save is an update and not a second insert, and   *)
(* both saves return the same id (no exists flag, no hook cancelling).     *)
(***************************************************************************)
C1_SaveTwiceConverges ==
    (last.op = "save" /\ NoHookThrew /\ last.prev.thr = {}) =>
        LET t == last.table
            id == SavedId
            writes == Queries(last.log)
        IN  /\ writes # <<>>
            /\ writes[1] = IF HasId(last.pre, t, id)
                           THEN Ev("update", t, id) ELSE Ev("insert", t, id)
            /\ Cardinality(Rows(db, t, id)) = 1
            /\ ~last.err => Get(last.ret, "id") = id
            /\ last.again =>
                /\ Get(last.object, "id") # Undef
                /\ writes[1] = Ev("update", t, id)
                /\ Count(last.log, "insert", t, id) = 0
                /\ Cardinality(Rows(last.pre, t, id)) = 1

C1_Witness ==
    /\ last.op = "save" /\ last.again /\ NoHookThrew /\ last.prev.thr = {}
    /\ last.prev.created /\ Completed
    /\ Queries(last.log)[1] = Ev("update", last.table, last.ret.id)

(***************************************************************************)
(* C2: after save(r) and then destroy of the saved record, beforeDestroy   *)
(* not failing, no row with that id remains and find(id) returns null.     *)
(***************************************************************************)
C2_DestroyedIsGone ==
    (last.op = "destroy" /\ NoHookThrew /\ (last.again => ~last.prev.canc)) =>
        /\ ~last.err
        /\ Rows(db, last.table, last.object.id) = {}
        /\ find(db, last.table, last.object.id) = <<>>

C2_Witness ==
    /\ last.op = "destroy" /\ last.again /\ ~last.prev.canc /\ NoHookThrew
    /\ Rows(last.pre, last.table, last.object.id) # {}
    /\ find(last.pre, last.table, last.object.id) # <<>>

(***************************************************************************)
(* C3: a create of a new record followed by a destroy of it runs each of   *)
(* the six hooks once, in the order beforeCreate, beforeSave, afterSave,   *)
(* afterCreate, beforeDestroy, afterDestroy; a save of a record whose row  *)
(* exists runs beforeSave and afterSave and neither beforeCreate nor       *)
(* afterCreate.                                                            *)
(***************************************************************************)
C3_HookOrder ==
    /\ (/\ last.op = "destroy" /\ last.again /\ last.prev.created
        /\ last.prev.thr = {} /\ NoHookThrew /\ ~last.err) =>
            HooksOf(last.prev.log \o last.log, last.table) =
                <<"beforeCreate", "beforeSave", "afterSave", "afterCreate",
                  "beforeDestroy", "afterDestroy">>
    /\ (/\ last.op = "save" /\ NoHookThrew /\ ~last.err
        /\ HasId(last.pre, last.table, SavedId)) =>
            HooksOf(last.log, last.table) = <<"beforeSave", "afterSave">>

C3_Witness ==
    /\ last.op = "destroy" /\ last.again /\ last.prev.created
    /\ last.prev.thr = {} /\ NoHookThrew /\ ~last.err
    /\ Len(HooksOf(last.prev.log \o last.log, last.table)) = 6

(***************************************************************************)
(* C4: when beforeCreate or beforeSave throws during save(r), no insert or *)
(* update is issued and no related record is saved (storage is as before), *)
(* the error is not rethrown, and the call returns the caller's input r,   *)
(* with its relation fields and without a generated id.                    *)
(***************************************************************************)
BeforeHookThrows ==
    LET t == last.table
        id == Get(last.object, "id")
        exists == id # Undef /\ HasId(last.pre, t, id)
    IN  \/ <<t, "beforeCreate">> \in last.env.thr /\ ~exists
        \/ <<t, "beforeSave">> \in last.env.thr

C4_CancelledSave ==
    (last.op = "save" /\ BeforeHookThrows) =>
        /\ ~last.err
        /\ db = last.pre
        /\ Queries(last.log) = <<>>
        /\ last.ret = last.object

C4_Witness ==
    /\ last.op = "save" /\ BeforeHookThrows
    /\ Get(last.object, "id") = Undef /\ Get(last.ret, "id") = Undef
    /\ \E k \in DOMAIN last.object \cap DOMAIN availableRelations(scn, last.table) :
          last.object[k] # <<>> /\ last.ret[k] = last.object[k]

(***************************************************************************)
(* C5: when beforeDestroy throws during destroy(r), the row of r and the   *)
(* rows of its dependent relations and join tables stay in storage,        *)
(* afterDestroy does not run, the error is not rethrown and the call       *)
(* returns r unmodified.                                                   *)
(***************************************************************************)
C5_CancelledDestroy ==
    (last.op = "destroy" /\ <<last.table, "beforeDestroy">> \in last.env.thr) =>
        /\ ~last.err
        /\ db = last.pre
        /\ Queries(last.log) = <<>>
        /\ HooksOf(last.log, last.table) = <<"beforeDestroy">>
        /\ last.ret = last.object

C5_Witness ==
    /\ last.op = "destroy" /\ <<last.table, "beforeDestroy">> \in last.env.thr
    /\ Rows(db, last.table, last.object.id) # {}
    /\ \E dr \in dependentRelations(availableRelations(scn, last.table)) :
          LET tableName == IF dr.type = "hasAndBelongsToMany"
                           THEN dr.throughTable ELSE dr.tableName
              key == IF dr.type = "hasAndBelongsToMany" THEN dr.sourceKey ELSE dr.key
          IN  Pointing(db, tableName, key, last.object.id) # {}
NoPairTwice(d, relation) ==
    \A j, k \in d[relation.throughTable] :
        (j[relation.sourceKey] = k[relation.sourceKey]
         /\ j[relation.key] = k[relation.key]) => j = k
NoIdTwice(S) ==
    \A i, j \in DOMAIN S :
        (i # j /\ Truthy(Get(S[i], "id"))) => Get(S[i], "id") # Get(S[j], "id")

JoinRowsMatch(allLists) ==
    (/\ last.op = "save" /\ Completed /\ NoHookThrew
     /\ Attached("hasAndBelongsToMany") # {}
     /\ allLists \/ (/\ NoIdTwice(Given("hasAndBelongsToMany"))
                     /\ NoPairTwice(last.pre, TheRelation("hasAndBelongsToMany")))) =>
        LET relation == TheRelation("hasAndBelongsToMany")
            through == relation.throughTable
            S == Given("hasAndBelongsToMany")
            saved == Returned("hasAndBelongsToMany")
            id == last.ret.id
            before == Pointing(last.pre, through, relation.sourceKey, id)
            after == Pointing(db, through, relation.sourceKey, id)
            savedIds == {Get(saved[i], "id") : i \in DOMAIN saved}
        IN  /\ Len(saved) = Len(S)
            /\ \A i \in DOMAIN saved :
                  /\ Truthy(Get(saved[i], "id"))
                  /\ HasId(db, relation.tableName, saved[i].id)
                  /\ Truthy(Get(S[i], "id")) => saved[i].id = S[i].id
            /\ {j[relation.key] : j \in after} = savedIds
            /\ Cardinality(after) = Cardinality(savedIds)
            /\ \A j \in before :
                  IF j[relation.key] \in IdsOf(S) THEN j \in after ELSE j \notin db[through]
            /\ \A j \in after \ before :
                  j[relation.key] \notin {b[relation.key] : b \in before}

C7_JoinRowsMatchList == JoinRowsMatch(TRUE)

\* the same for the lists that name no record twice, saved on a join table
\* that holds no pair twice
JoinRowsMatchDistinctList == JoinRowsMatch(FALSE)
JoinRowsOfDistinctList ==
    /\ last.op = "save" /\ Completed /\ NoHookThrew
    /\ Attached("hasAndBelongsToMany") # {}
    /\ NoIdTwice(Given("hasAndBelongsToMany"))
    /\ Given("hasAndBelongsToMany") # <<>>
    /\ \E j \in last.pre[TheRelation("hasAndBelongsToMany").throughTable] :
          j \notin db[TheRelation("hasAndBelongsToMany").throughTable]
\* the row of d[t] with the id taken off its foreign key
Detached(r, key) == [r EXCEPT ![key] = Null]
\* the saved record was written by an update when its row existed before the
\* call and by an insert otherwise
WrittenOnce(t, id) ==
    IF HasId(last.pre, t, id)
    THEN Count(last.log, "update", t, id) >= 1 /\ Count(last.log, "insert", t, id) = 0
    ELSE Count(last.log, "insert", t, id) = 1 /\ Count(last.log, "update", t, id) = 0

BelongsToNullCase ==
    /\ last.op = "save" /\ Completed /\ NoHookThrew
    /\ Attached("belongsTo") # {}
    /\ Given("belongsTo") = <<>>
    /\ \E r \in Rows(last.pre, last.table, last.ret.id) :
          Truthy(r[TheRelation("belongsTo").key])
\* the relations of the last call's table that have one of the types
RelationsOf(types) ==
    LET rels == availableRelations(scn, last.table)
    IN  {rels[k] : k \in {x \in DOMAIN rels : rels[x].type \in types}}
\* the call was a destroy that ran to its end
Destroyed == last.op = "destroy" /\ Completed

(***************************************************************************)
(* C11: after a completed destroy of a parent, for every hasMany or hasOne *)
(* relation declared dependent no row of the related table has its foreign *)
(* key equal to the parent's id: the children attached to the parent are   *)
(* deleted.                                                                *)
(***************************************************************************)
C11_DependentChildrenDeleted ==
    Destroyed =>
        \A dr \in RelationsOf({"hasMany", "hasOne"}) :
            dr.dependent =>
                /\ Pointing(db, dr.tableName, dr.key, last.object.id) = {}
                /\ \A r \in Pointing(last.pre, dr.tableName, dr.key, last.object.id) :
                      ~HasId(db, dr.tableName, r.id)

C11_Witness ==
    /\ Destroyed
    /\ \E dr \in RelationsOf({"hasMany", "hasOne"}) :
          /\ dr.dependent
          /\ Pointing(last.pre, dr.tableName, dr.key, last.object.id) # {}

(***************************************************************************)
(* C12: after a completed destroy of a parent, for every hasMany or hasOne *)
(* relation that is not dependent, every child that was attached to the    *)
(* parent still exists and its foreign key is null.                        *)
(***************************************************************************)
C12_OtherChildrenDetached ==
    Destroyed =>
        \A dr \in RelationsOf({"hasMany", "hasOne"}) :
            ~dr.dependent =>
                \A r \in Pointing(last.pre, dr.tableName, dr.key, last.object.id) :
                    Detached(r, dr.key) \in db[dr.tableName]

\* what the code does instead: the children stay as they were, their foreign
\* key still the id of the destroyed parent
OtherChildrenUntouched ==
    Destroyed =>
        \A dr \in RelationsOf({"hasMany", "hasOne"}) :
            ~dr.dependent => db[dr.tableName] = last.pre[dr.tableName]
OtherChildrenLeft ==
    /\ Destroyed
    /\ \E dr \in RelationsOf({"hasMany", "hasOne"}) :
          /\ ~dr.dependent
          /\ Pointing(db, dr.tableName, dr.key, last.object.id) # {}

(***************************************************************************)
(* C13: after a completed destroy of a parent, no join row of any of its   *)
(* hasAndBelongsToMany relations has its source key equal to the parent's  *)
(* id, whatever dependent flag the relation was declared with, and the     *)
(* related records themselves are not deleted.                             *)
(***************************************************************************)
C13_JoinRowsDeleted ==
    Destroyed =>
        \A dr \in RelationsOf({"hasAndBelongsToMany"}) :
            /\ Pointing(db, dr.throughTable, dr.sourceKey, last.object.id) = {}
            /\ db[dr.tableName] = last.pre[dr.tableName]

C13_Witness ==
    /\ Destroyed
    /\ \E dr \in RelationsOf({"hasAndBelongsToMany"}) :
          /\ ~Declared(scn)[last.table][dr.name].dependent
          /\ \E j \in Pointing(last.pre, dr.throughTable, dr.sourceKey, last.object.id) :
                HasId(db, dr.tableName, j[dr.key])
\* the same with the relation declared dependent: true
JoinRowsOfDependentDeleted ==
    /\ Destroyed
    /\ \E dr \in RelationsOf({"hasAndBelongsToMany"}) :
          /\ Declared(scn)[last.table][dr.name].dependent
          /\ \E j \in Pointing(last.pre, dr.throughTable, dr.sourceKey, last.object.id) :
                HasId(db, dr.tableName, j[dr.key])

(***************************************************************************)
(* Vocabulary of the context properties: the one withContext call          *)
(***************************************************************************)
Projected == last.op = "withContext"
OneProjected == Projected /\ ~last.array
Asked == last.context.v[1]
NoContexts(t) == ctx[t] = <<>>
Registers(t, name) == ~NoContexts(t) /\ name \in DOMAIN ctx[t][1]
RegistersList(t, name) == Registers(t, name) /\ ctx[t][1][name].kind = "array"

\* the call names a context that the table registers as a list of fields
ListContext == OneProjected /\ RegistersList(last.table, Asked)
Listed == Elements(ctx[last.table][1][Asked].v)
\* a list that withContext projects on: not empty, not the wildcard
ProperList(list) == Len(list) > 0 /\ list[1] # "*"

\* C14: withContext(record, name), the named context being a list of field
\* names, returns an object whose keys are exactly the listed names present
\* on the record, whatever their value, and no other key.
C14_KeysAreListedAndPresent ==
    ListContext =>
        /\ ~last.err
        /\ DOMAIN last.ret = {k \in Listed : k \in DOMAIN last.object}

\* the case of C14 that fails: a listed field is present with the value ""
ListedFieldIsEmptyString ==
    /\ ListContext /\ ProperList(ctx[last.table][1][Asked].v)
    /\ "name" \in Listed /\ Get(last.object, "name") = ""
    /\ ~last.err /\ "name" \notin DOMAIN last.ret

\* what the projection does keep: the listed names whose value is truthy
KeysAreListedAndTruthy ==
    (ListContext /\ ProperList(ctx[last.table][1][Asked].v) /\ ~last.err) =>
        DOMAIN last.ret =
            {k \in Listed : Has(last.object, k, availableRelations(scn, last.table))}
KeysListedAndTruthy ==
    /\ ListContext /\ ProperList(ctx[last.table][1][Asked].v) /\ ~last.err
    /\ DOMAIN last.ret = {"name"} /\ "id" \in DOMAIN last.object

\* the relation fields that the list of the call names and the record holds
ListedRelations ==
    {k \in Listed \cap RelationNames(scn, last.table) :
        Has(last.object, k, availableRelations(scn, last.table))}
\* the name under which the table of relation k is to project: the name of
\* the call when that table registers it, and default otherwise
NameFor(k) ==
    IF Registers(availableRelations(scn, last.table)[k].tableName, Asked)
    THEN Asked ELSE "default"
\* what that table's withContext makes, under that name, of the value of k
ByName(k) ==
    LET relation == availableRelations(scn, last.table)[k]
    IN  withContext(scn, ctx, relation.tableName,
                    IF relation.many THEN last.object[k] ELSE last.object[k][1],
                    relation.many, Str(NameFor(k)))
GraftedAs(k, R) ==
    /\ ~R.err
    /\ last.ret[k] = IF availableRelations(scn, last.table)[k].many
                     THEN R.val ELSE <<R.val>>

\* C15: in a field-list context named N, a listed relation field is
\* projected through the related table's context named N when it has one and
\* through its default context otherwise, at every level of nesting: the
\* field holds what the related table's withContext gives under that name.
C15_RelationsProjectedByName ==
    (ListContext /\ ProperList(ctx[last.table][1][Asked].v) /\ ~last.err) =>
        \A k \in ListedRelations : GraftedAs(k, ByName(k))

\* the records held by relation field k hold no relation field themselves
HoldsFlat(k) ==
    \A i \in 1..Len(last.object[k]) :
        DOMAIN last.object[k][i] \subseteq {"id", "name"}

\* at the first level of nesting the projection is the one of C15
FirstLevelProjectedByName ==
    (ListContext /\ ProperList(ctx[last.table][1][Asked].v) /\ ~last.err) =>
        \A k \in ListedRelations : HoldsFlat(k) => GraftedAs(k, ByName(k))
FirstLevelProjected ==
    /\ ListContext /\ ProperList(ctx[last.table][1][Asked].v) /\ ~last.err
    /\ \E k \in ListedRelations :
          /\ HoldsFlat(k) /\ last.object[k] # <<>>
          /\ RegistersList(availableRelations(scn, last.table)[k].tableName, Asked)
          /\ last.ret[k] # last.object[k]

\* the case of C15 that fails: the related table lists a relation of its own
\* under N, and the records of that relation come back unprojected although
\* their table registers N
SecondLevelNotProjected ==
    /\ ListContext /\ ProperList(ctx[last.table][1][Asked].v) /\ ~last.err
    /\ last.table = "users" /\ Asked = "simple"
    /\ RegistersList("projects", "simple") /\ ProperList(ctx["projects"][1]["simple"].v)
    /\ "projects" \in ListedRelations /\ Len(last.ret.projects) = 1
    /\ "user" \in DOMAIN last.ret.projects[1]
    /\ last.ret.projects[1].user = last.object.projects[1].user
    /\ "id" \in DOMAIN last.ret.projects[1].user[1]

\* withContext(results) with no context named: the default marker
Unnamed == Projected /\ last.context = Str("default")
TheDefault == ctx[last.table][1]["default"]
\* what the call makes of one record, and of the i-th record of an array
Alone(i) == withContext(scn, ctx, last.table, last.object[i], FALSE, last.context)

\* the call did what the call under the name given does
Under(name) == withContext(scn, ctx, last.table, last.object, FALSE, Str(name))
Same(R) == last.err = R.err /\ (~R.err => last.ret = R.val)
AsUnder(name) == Same(Under(name))

\* C16: withContext called without a context name returns the record as it
\* is when the table registers no contexts or no default context, and
\* applies the registered default context when there is one (a function is
\* called on the record, a list keeps its fields, a name stands for the
\* context registered under it); an array is projected element by element,
\* into an array of the same length and order.
C16_DefaultContext ==
    /\ (Unnamed /\ ~last.array /\ ~Registers(last.table, "default")) =>
          ~last.err /\ last.ret = last.object
    /\ (Unnamed /\ ~last.array /\ Registers(last.table, "default")) =>
          CASE TheDefault.kind = "function" ->
                 ~last.err /\ last.ret = Apply(TheDefault.v[1], last.object)
            [] TheDefault.kind = "array" ->
                 /\ ~last.err
                 /\ DOMAIN last.ret = Elements(TheDefault.v) \cap DOMAIN last.object
                 /\ \A k \in DOMAIN last.ret : last.ret[k] = last.object[k]
            [] OTHER -> AsUnder(TheDefault.v[1])
    /\ (Projected /\ last.array /\ ~last.err) =>
          /\ Len(last.ret) = Len(last.object)
          /\ \A i \in 1..Len(last.object) : ~Alone(i).err /\ last.ret[i] = Alone(i).val
C16_Witness ==
    /\ Unnamed /\ last.array /\ ~last.err /\ Registers(last.table, "default")
    /\ Len(last.object) = 2 /\ last.object[1] # last.object[2]
    /\ last.ret # last.object /\ last.ret[1] # last.ret[2]
\* the other cases of C16
PassedThrough ==
    Unnamed /\ ~last.array /\ ~NoContexts(last.table)
    /\ ~Registers(last.table, "default") /\ last.ret = last.object
DefaultListApplied ==
    Unnamed /\ ~last.array /\ Registers(last.table, "default")
    /\ TheDefault.kind = "array" /\ DOMAIN last.ret # DOMAIN last.object
DefaultNameApplied ==
    Unnamed /\ ~last.array /\ Registers(last.table, "default")
    /\ TheDefault.kind = "string" /\ ~last.err

\* C17: withContext(record, name) with a name other than "default" that the
\* table does not register, also when it registers no contexts at all,
\* throws a ContextError and produces no projected value.
C17_UnregisteredNameThrows ==
    (OneProjected /\ Asked # "default" /\ ~Registers(last.table, Asked)) =>
        last.err

\* the case of C17 that fails: the name is a member every object inherits
InheritedNameNotRefused ==
    /\ OneProjected /\ Asked = "constructor"
    /\ ~NoContexts(last.table) /\ ~Registers(last.table, Asked)
    /\ ~last.err /\ last.ret = last.object

\* a name that is neither registered nor inherited is refused, and every
\* name is when the table registers no contexts
OtherUnregisteredNameThrows ==
    (OneProjected /\ Asked # "default" /\ ~Registers(last.table, Asked)
       /\ (Asked \notin DOMAIN ObjectPrototype \/ NoContexts(last.table))) =>
        last.err
UnregisteredNameThrew ==
    /\ OneProjected /\ Asked = "unknown" /\ ~NoContexts(last.table) /\ last.err
NoContextsThrew ==
    /\ OneProjected /\ Asked = "constructor" /\ NoContexts(last.table) /\ last.err

(***************************************************************************)
(* Vocabulary of the eager loading properties: the last call is            *)
(* Model.include(name).all(), and the storage is as the call found it      *)
(***************************************************************************)
Included1 == last.op = "all" /\ Len(last.object) = 1
Loaded == Included1 /\ ~last.err /\ Len(last.ret) > 0
IncludedRelation == availableRelations(scn, last.table)[last.object[1]]
\* the result row a returned record was made of
ResultRow(g) == Without(g, {last.object[1]})
\* the rows of the related table that are related to a result row
RelatedTo(row) ==
    LET relation == IncludedRelation
        related == db[relation.tableName]
    IN  CASE relation.type = "belongsTo" ->
               {x \in related : x.id = row[relation.key]}
          [] relation.type = "hasAndBelongsToMany" ->
               {x \in related :
                   \E j \in db[relation.throughTable] :
                       j[relation.sourceKey] = row.id /\ j[relation.key] = x.id}
          [] OTHER -> {x \in related : x[relation.key] = row.id}
\* a list that holds each row of S once
Lists(list, S) == Elements(list) = S /\ Len(list) = Cardinality(S)

\* C18: eager loading a relation grafts on each result row: for belongsTo
\* the related row whose id is the row's foreign key; for hasMany all the
\* related rows whose foreign key is the row's id; for hasOne the first such
\* row; for hasAndBelongsToMany exactly the related rows whose id appears in
\* a join row whose source key is the row's id.  No result receives a row
\* that is related to another result only.
C18_RelatedRowsGrafted ==
    Loaded =>
        /\ Lists([i \in DOMAIN last.ret |-> ResultRow(last.ret[i])], db[last.table])
        /\ \A i \in DOMAIN last.ret :
              LET g == last.ret[i]
                  value == g[last.object[1]]
              IN  IF IncludedRelation.many
                  THEN Lists(value, RelatedTo(ResultRow(g)))
                  ELSE IF RelatedTo(ResultRow(g)) = {} THEN value = <<>>
                  ELSE Len(value) = 1 /\ value[1] \in RelatedTo(ResultRow(g))
\* two results, one with related rows that the other does not have
C18_Witness ==
    /\ Loaded /\ Len(last.ret) >= 2
    /\ \E i, j \in DOMAIN last.ret :
          /\ last.ret[i][last.object[1]] # <<>>
          /\ last.ret[j][last.object[1]] # last.ret[i][last.object[1]]
\* each type of relation is loaded with rows to graft
LoadedOfType(type) ==
    /\ Loaded /\ IncludedRelation.type = type
    /\ \E i \in DOMAIN last.ret : last.ret[i][last.object[1]] # <<>>
BelongsToLoaded == LoadedOfType("belongsTo")
HasManyLoaded == LoadedOfType("hasMany")
HasOneLoaded == LoadedOfType("hasOne")
HasAndBelongsToManyLoaded == LoadedOfType("hasAndBelongsToMany")
\* a hasOne relation with two candidate rows
HasOneOfTwo ==
    /\ Loaded /\ IncludedRelation.type = "hasOne"
    /\ \E i \in DOMAIN last.ret : Cardinality(RelatedTo(ResultRow(last.ret[i]))) = 2

\* the call includes a relation name that the table does not register
UnknownIncluded ==
    Included1 /\ last.object[1] \notin DOMAIN availableRelations(scn, last.table)

\* C19: requesting eager loading of a relation name that is not registered
\* for the table fails with a RelationError and with no other kind of error,
\* also on a table that registers no relations at all.
C19_UnknownRelationError ==
    UnknownIncluded => last.err /\ last.error = "RelationError"

\* the cases of C19 that fail: with rows in the table the call ends in a
\* TypeError, on a table with relations and on one without; with no rows it
\* ends in no error
UnknownIncludedTypeError ==
    /\ UnknownIncluded /\ last.table \in Models(scn)
    /\ last.err /\ last.error = "TypeError"
UnknownIncludedNoRelations ==
    /\ UnknownIncluded /\ last.table \notin Models(scn)
    /\ last.err /\ last.error = "TypeError"
UnknownIncludedNoRows ==
    /\ UnknownIncluded /\ db[last.table] = {} /\ ~last.err

\* an unknown name never ends in a RelationError
UnknownNeverRelationError ==
    UnknownIncluded =>
        /\ last.error # "RelationError"
        /\ last.err <=> db[last.table] # {}

(***************************************************************************)
(* Vocabulary of the transaction properties                                *)
(***************************************************************************)
\* the last call was made with the transaction, which has not committed
WithTransaction ==
    last.op \in {"save", "destroy", "bulkDestroy", "all"} /\ last.options.transaction
\* the queries of the last call that served purpose q on table t
Via(q, t) == {i \in DOMAIN last.via : last.via[i].q = q /\ last.via[i].t = t}

\* C20: when save (create), destroy, all or bulkDestroy is called with a
\* transaction option, every query it issues is bound to that transaction:
\* the existence checks, the unset and delete queries of the relations, the
\* join-row inserts, the eager-load queries and the queries of the nested
\* saves; so before the commit the storage that a query without the
\* transaction reads is as it was before the call.
C20_QueriesBoundToTransaction ==
    WithTransaction =>
        /\ \A i \in DOMAIN last.via : last.via[i].transaction
        /\ db = last.pre
\* a save with a nested save and a join row, written and not yet visible
C20_Witness ==
    /\ WithTransaction /\ last.op = "save" /\ last.table = "users" /\ ~last.err
    /\ scn = "habtm"
    /\ Via("exists", "users") # {} /\ Via("insert", "users") # {}
    /\ Via("delete", "projects_users") # {} /\ Via("select", "projects") # {}
    /\ Via("insert", "projects") # {} /\ Via("insert", "projects_users") # {}
    /\ last.view # db /\ last.view.projects_users # {}
\* the other calls, and the commit
UnsetInTransaction ==
    /\ WithTransaction /\ last.op = "save" /\ ~last.err
    /\ \E t \in Tables(scn) : Via("unset", t) # {} /\ Via("update", t) # {}
    /\ last.view # db
DestroyInTransaction ==
    /\ WithTransaction /\ last.op = "destroy" /\ ~last.err
    /\ Cardinality(DOMAIN last.via) >= 2 /\ last.view # db
BulkDestroyInTransaction ==
    /\ WithTransaction /\ last.op = "bulkDestroy" /\ last.view # db
EagerLoadInTransaction ==
    /\ WithTransaction /\ last.op = "all" /\ ~last.err
    /\ Cardinality(DOMAIN last.via) >= 3 /\ last.ret # <<>> /\ db[last.table] = {}
\* at the commit what the call wrote reaches the storage
CommitPublishes == last.op = "commit" => db = last.view
Committed == last.op = "commit" /\ db # last.pre
(***************************************************************************)
(* Vocabulary of the Database properties                                   *)
(***************************************************************************)
Quiet == database.closing = 0
IsConnected == database.isConnected = "true"
Holds == database.knex # <<>>
Kept == database'.knex = database.knex /\ database'.isConnected = database.isConnected /\ database'.closing = database.closing

FlagFollowsKnex ==
    /\ Quiet => (IsConnected <=> Holds)
    /\ database.op = "new" /\ database.steps = 0 => ~IsConnected /\ ~Holds
    /\ database.op = "connect" /\ database.was = "false" => IsConnected /\ Holds

IdleCallsChangeNothing ==
    /\ Connect /\ IsConnected => Kept
    /\ Disconnect /\ ~IsConnected => Kept

\* C21: once every call has completed, isConnected is true exactly when knex
\* is not null; new Database(false) starts disconnected; connect on a
\* connected Database and disconnect on a disconnected one change nothing;
\* connect after a completed disconnect connects again.
C21_ConnectedExactlyWithKnex == []FlagFollowsKnex /\ [][IdleCallsChangeNothing]_vars

C21_Witness == database.op = "connect" /\ database.was = "false" /\ Quiet /\ IsConnected /\ Holds

StartsDisconnected == database.op = "new" /\ database.steps = 0 /\ ~Holds /\ database.isConnected = Undef
DisconnectedAgain == database.op = "disconnected" /\ Quiet /\ ~Holds /\ ~IsConnected
ConnectOnConnected == database.op = "connect" /\ database.was = "true" /\ Quiet
DisconnectOnDisconnected == database.op = "disconnect" /\ database.was # "true" /\ Quiet

Connecting == database.op \in {"connect", "new"} /\ database.steps > 0 /\ database.was # "true"
EnvironmentUrl == IF database.NODE_ENV = "test" THEN TEST_DATABASE_URL ELSE DATABASE_URL

\* C22: connect(s) with a connection string s connects to s; only a connect
\* without an argument falls back to the URL of the environment
\* (TEST_DATABASE_URL under NODE_ENV test, DATABASE_URL otherwise).
C22_ConnectsToGivenString ==
    Connecting =>
        /\ database.arg # <<>> /\ database.arg[1] = "string" => database.knex = <<database.arg[2]>>
        /\ database.arg = <<>> => database.knex = <<EnvironmentUrl>>

\* what connect does with a connection string: the string only selects the
\* test URL, in whatever environment
GivenStringSelectsTestUrl ==
    Connecting /\ database.arg # <<>> /\ database.arg[1] = "string" => database.knex = <<TEST_DATABASE_URL>>

GivenStringIgnored == Connecting /\ database.arg = <<"string", "postgres://other">> /\ database.NODE_ENV = "production" /\ database.knex = <<TEST_DATABASE_URL>>
NoArgumentUsesEnvironment == Connecting /\ database.arg = <<>> /\ database.NODE_ENV = "production" /\ database.knex = <<DATABASE_URL>>

Handed(hookNames) == {i \in DOMAIN last.hooked : last.hooked[i].hookName \in hookNames}
RelationsAttached == DOMAIN last.object \cap DOMAIN availableRelations(scn, last.table) # {}

\* C23: every hook (beforeCreate, beforeSave, afterSave, afterCreate,
\* beforeDestroy, afterDestroy) is handed the record without any relation
\* field of its table, also when the record saved or destroyed has related
\* records attached.
C23_HooksGetNoRelations ==
    last.op \in {"save", "destroy"} =>
        \A i \in DOMAIN last.hooked : last.hooked[i].relations = {}

\* the hooks that run before the write of a save are handed no relation
BeforeSaveHooksGetNoRelations ==
    last.op = "save" =>
        \A i \in Handed({"beforeCreate", "beforeSave"}) : last.hooked[i].relations = {}

AfterSaveGotRelations == last.op = "save" /\ RelationsAttached /\ \E i \in Handed({"afterSave"}) : last.hooked[i].t = last.table /\ last.hooked[i].relations # {}
AfterCreateGotRelations == last.op = "save" /\ RelationsAttached /\ \E i \in Handed({"afterCreate"}) : last.hooked[i].relations # {}
BeforeDestroyGotRelations == last.op = "destroy" /\ RelationsAttached /\ \E i \in Handed({"beforeDestroy"}) : last.hooked[i].relations # {}
AfterDestroyGotRelations == last.op = "destroy" /\ RelationsAttached /\ \E i \in Handed({"afterDestroy"}) : last.hooked[i].relations # {}
BeforeSaveGotNoRelations == last.op = "save" /\ RelationsAttached /\ \E i \in Handed({"beforeSave"}) : last.hooked[i].t = last.table /\ last.hooked[i].relations = {}

AfterDestroyRun == Handed({"afterDestroy"})
Deletes == {i \in DOMAIN last.log : last.log[i][1] = "delete"}
Starts(hookName) == {i \in DOMAIN last.log : last.log[i] = Ev("hook", last.table, hookName)}
\* a hook has finished when the call resolves if the call awaited it, or if
\* it returned no promise
Finished(i) == last.hooked[i].awaited \/ ~last.env.promise

\* C24: in destroy, afterDestroy starts only after the delete of the row and
\* every delete of dependent rows and join rows has completed, and destroy
\* resolves only after the afterDestroy hook has finished, also when the hook
\* returns a promise.
C24_AfterDestroyLastAndAwaited ==
    last.op = "destroy" /\ ~last.err =>
        /\ \A h \in Starts("afterDestroy") : \A q \in Deletes : q < h
        /\ \A i \in AfterDestroyRun : Finished(i)

\* afterDestroy starts after every delete of the call
AfterDestroyStartsLast ==
    last.op = "destroy" /\ ~last.err =>
        \A h \in Starts("afterDestroy") : \A q \in Deletes : q < h

\* the hooks destroy waits for: beforeDestroy, not afterDestroy
BeforeDestroyAwaited ==
    last.op = "destroy" => \A i \in Handed({"beforeDestroy"}) : Finished(i)

ResolvedBeforeAfterDestroyFinished == last.op = "destroy" /\ ~last.err /\ last.env.promise /\ \E i \in AfterDestroyRun : ~Finished(i)
AfterDestroyAfterDependentDeletes == last.op = "destroy" /\ Cardinality(Deletes) >= 2 /\ Starts("afterDestroy") # {}

(***************************************************************************)
(* Vocabulary of the clock properties                                      *)
(***************************************************************************)
InsertedBy(t) == {r \in db[t] : Count(last.log, "insert", t, r.id) > 0}
WrittenBy(t) == InsertedBy(t) \cup {r \in db[t] : Count(last.log, "update", t, r.id) > 0}
Stamped(r, inserted, now) == r.updatedAt = now /\ (inserted => r.createdAt = now)
JoinTables == Tables(scn) \ Models(scn)

\* C25: one top-level save writes the parent row, the rows of the related
\* records it saves and the join rows it inserts with one and the same
\* updatedAt (and createdAt, for the rows it inserts), even when the clock
\* moves on during the call.
C25_OneTimestampPerSave ==
    last.op = "save" /\ ~last.err =>
        \A t \in Tables(scn) : \A r \in WrittenBy(t) :
            Stamped(r, r \in InsertedBy(t), last.env.times[1])

\* the row of the record itself and the join rows carry the first reading
\* of the call, the rows of the related records the later one
ParentAndJoinRowsShareTime ==
    last.op = "save" /\ ~last.err =>
        /\ \A r \in WrittenBy(last.table) :
            r.id = Get(last.ret, "id") => Stamped(r, r \in InsertedBy(last.table), last.env.times[1])
        /\ \A t \in JoinTables : \A r \in WrittenBy(t) : Stamped(r, TRUE, last.env.times[1])
        /\ \A t \in Models(scn) \ {last.table} : \A r \in WrittenBy(t) :
            Stamped(r, r \in InsertedBy(t), last.env.times[2])

RelatedRowStampedLater == last.op = "save" /\ ~last.err /\ last.env.times[2] # last.env.times[1] /\ \E t \in Models(scn) \ {last.table} : \E r \in WrittenBy(t) : r.updatedAt = last.env.times[2]
JoinRowStampedFirst == last.op = "save" /\ ~last.err /\ last.env.times[2] # last.env.times[1] /\ \E t \in JoinTables : \E r \in InsertedBy(t) : r.updatedAt = last.env.times[1]
RelatedRowUpdatedLater == last.op = "save" /\ last.again /\ ~last.err /\ \E t \in Models(scn) \ {last.table} : \E r \in WrittenBy(t) \ InsertedBy(t) : r.updatedAt = last.env.times[2]

(***************************************************************************)
(* Vocabulary of the frame properties                                      *)
(***************************************************************************)
\* the assignments of the last call that changed a record of the caller
Changing == {i \in DOMAIN last.set : Get(last.set[i].object, last.set[i].key) # last.set[i].value}
RelationTypesOf(t) == {availableRelations(scn, t)[k].type : k \in DOMAIN last.object \cap DOMAIN availableRelations(scn, t)}

\* C26: save never changes what the caller passed in: the caller's record
\* and every related record attached to it have the same fields and values
\* after the call as before; ids, foreign keys and timestamps are set on
\* copies only.
C26_SaveLeavesArgumentsAlone ==
    last.op = "save" => Changing = {}

\* a save of a record with no hasMany and no hasOne relation attached, at
\* any depth, changes no record of the caller
OnlyHasManyAndHasOneChange ==
    last.op = "save" /\ Changing # {} =>
        \E t \in Reached(last.table, last.object) :
            \E k \in DOMAIN availableRelations(scn, t) :
                availableRelations(scn, t)[k].type \in {"hasMany", "hasOne"}

RelatedRecordGotForeignKey == last.op = "save" /\ ~last.err /\ \E i \in Changing : last.set[i].key \notin {"id"} /\ "hasMany" \in RelationTypesOf(last.table)
RelatedRecordGotId == last.op = "save" /\ ~last.err /\ \E i \in Changing : last.set[i].key = "id" /\ "hasOne" \in RelationTypesOf(last.table)
HabtmChangedNothing == last.op = "save" /\ ~last.err /\ "hasAndBelongsToMany" \in RelationTypesOf(last.table) /\ last.object # last.ret /\ Changing = {}

(***************************************************************************)
(* Vocabulary of the failure properties                                    *)
(***************************************************************************)
SavingId == IF Get(last.object, "id") = Undef THEN uuid(last.n0) ELSE last.object.id
\* the write of the record itself went through and queries followed it
Reconciling == Len(Queries(last.log)) >= 2 /\ Queries(last.log)[1][2] = last.table /\ Queries(last.log)[1][3] = SavingId
ParentRowWritten == \E r \in db[last.table] : r.id = SavingId /\ r.updatedAt = last.env.times[1]
InsertsOf(t) == {last.log[i][3] : i \in {j \in DOMAIN last.log : last.log[j][1] = "insert" /\ last.log[j][2] = t}}
NoInsertFailed == \A t \in Tables(scn) : \A id \in InsertsOf(t) : Count(last.log, "insert", t, id) = 1 /\ ~HasId(last.pre, t, id) /\ HasId(db, t, id)

FailedAfterParentUpdate == last.op = "save" /\ last.again /\ last.err /\ Reconciling /\ ParentRowWritten /\ HasId(last.pre, last.table, SavingId)
RelatedInsertFailed == last.op = "save" /\ last.err /\ \E t \in Models(scn) \ {last.table} : \E id \in InsertsOf(t) : Count(last.log, "insert", t, id) = 2

(***************************************************************************)
(* Vocabulary of the belongsTo properties                                  *)
(***************************************************************************)
\* the records attached to object through a belongsTo relation of table t,
\* as pairs of their table and the id the caller gave them
OwnersOf(t, object) ==
    LET rels == availableRelations(scn, t)
        ks == {k \in DOMAIN object \cap DOMAIN rels : rels[k].type = "belongsTo" /\ object[k] # <<>>}
    IN  {<<rels[k].tableName, Get(object[k][1], "id")>> : k \in ks}
RelatedOf(t, object) ==
    LET rels == availableRelations(scn, t)
    IN  UNION {{<<rels[k].tableName, object[k][i]>> : i \in DOMAIN object[k]} : k \in DOMAIN object \cap DOMAIN rels}
\* those of the record saved and of the records attached to it, but for the
\* record saved itself
Owners ==
    (OwnersOf(last.table, last.object)
     \cup UNION {OwnersOf(p[1], p[2]) : p \in RelatedOf(last.table, last.object)})
    \ {<<last.table, SavingId>>, <<last.table, Undef>>}
SavedBy(p, kind) == Count(last.log, kind, p[1], p[2])
WrittenAsStored(p) ==
    SavedBy(p, "insert") + SavedBy(p, "update") > 0 =>
        IF HasId(last.pre, p[1], p[2]) THEN SavedBy(p, "insert") = 0 ELSE SavedBy(p, "insert") = 1

\* C28: the record attached through a belongsTo relation is inserted when no
\* row with its id exists and updated when one exists, whatever exists flag
\* the save of the owning record was called with, also a flag handed down to
\* the owning record by an enclosing hasMany, hasOne or hasAndBelongsToMany
\* save.
C28_BelongsToWrittenAsStored ==
    last.op = "save" => \A p \in Owners : WrittenAsStored(p)

\* without a flag on the save of the owning record the table is asked
UnflaggedBelongsToWrittenAsStored ==
    last.op = "save" /\ last.options.exists = "unset" =>
        \A p \in OwnersOf(last.table, last.object) \ {<<last.table, SavingId>>, <<last.table, Undef>>} : WrittenAsStored(p)

FlaggedNewInsertedStoredOwner == last.op = "save" /\ last.options.exists = "false" /\ \E p \in OwnersOf(last.table, last.object) : HasId(last.pre, p[1], p[2]) /\ SavedBy(p, "insert") = 1
FlaggedStoredUpdatedMissingOwner == last.op = "save" /\ last.options.exists = "true" /\ \E p \in OwnersOf(last.table, last.object) : p[2] # Undef /\ ~HasId(last.pre, p[1], p[2]) /\ SavedBy(p, "update") = 1 /\ SavedBy(p, "insert") = 0
HandedDownFlagMisleads == last.op = "save" /\ last.options.exists = "unset" /\ \E p \in Owners \ OwnersOf(last.table, last.object) : ~WrittenAsStored(p)
UnflaggedOwnerInserted == last.op = "save" /\ last.options.exists = "unset" /\ ~last.err /\ \E p \in OwnersOf(last.table, last.object) : p[2] # Undef /\ ~HasId(last.pre, p[1], p[2]) /\ SavedBy(p, "insert") = 1

(***************************************************************************)
(* Vocabulary of the join row properties                                   *)
(***************************************************************************)
JoinRowsInserted == IF "projects_users" \in Tables(scn) THEN db.projects_users \ last.pre.projects_users ELSE {}
Refers(j) ==
    /\ j.userId # Null /\ HasId(db, "users", j.userId)
    /\ j.projectId # Null /\ HasId(db, "projects", j.projectId)

\* C29: every join row a save inserts has a source key and a related key
\* that are not null and are the ids of a parent row and of a related row
\* in the storage when the save completes, also when a beforeCreate or
\* beforeSave hook of the related table cancels the save of a related record.
C29_JoinRowsRefer ==
    last.op = "save" /\ ~last.err => \A j \in JoinRowsInserted : Refers(j)

\* when no hook cancels, the join rows refer to rows of the storage
JoinRowsReferUncancelled ==
    last.op = "save" /\ ~last.err /\ last.env.thr = {} => \A j \in JoinRowsInserted : Refers(j)

JoinRowOfCancelledSave == last.op = "save" /\ ~last.err /\ last.env.thr # {} /\ \E j \in JoinRowsInserted : j.userId # Null /\ j.projectId # Null /\ ~Refers(j)
JoinRowWithNullKey == last.op = "save" /\ ~last.err /\ last.env.thr # {} /\ \E j \in JoinRowsInserted : j.userId = Null \/ j.projectId = Null
JoinRowRefers == last.op = "save" /\ ~last.err /\ last.env.thr = {} /\ \E j \in JoinRowsInserted : Refers(j)

JoinRows == IF "projects_users" \in Tables(scn) THEN db.projects_users ELSE {}
PairedAs(j) == {x \in JoinRows : x.userId = j.userId /\ x.projectId = j.projectId}

\* C30: after any sequence of saves, also of saves whose list of related
\* records names the same record twice, the join table holds at most one
\* row per pair of source id and related id.
C30_OneJoinRowPerPair ==
    \A j \in JoinRows : PairedAs(j) = {j}

PairJoinedTwice == last.op = "save" /\ ~last.err /\ \E j \in JoinRows : j.userId # Null /\ j.projectId # Null /\ Cardinality(PairedAs(j)) = 2 /\ HasId(db, "users", j.userId) /\ HasId(db, "projects", j.projectId)

(***************************************************************************)
(* Vocabulary of the properties of saves in flight together                *)
(***************************************************************************)
Concurrent == last.op = "concurrent"
Settled == Concurrent /\ \A i \in DOMAIN last.saves : last.saves[i].pc \in {"saved", "failed"}
SameRecord == last.saves[1].t = last.saves[2].t /\ last.saves[1].object.id = last.saves[2].object.id
RowsOf(c) == {r \in db[c.t] : r.id = c.object.id}
EnvOf(c) == [thr |-> {}, times |-> <<c.savingObject.updatedAt, c.savingObject.updatedAt>>, promise |-> FALSE]
SavedAlone(d, c) == save(Start(d, 0), c.t, c.object, NoOptions, EnvOf(c)).db
OneAfterTheOther(a, b) == SavedAlone(SavedAlone(last.pre, a), b)

\* C31: when two saves of a record with the same id and no exists flag are
\* in flight together and no row with that id exists yet, exactly one of
\* them inserts and the other updates: one row results and neither fails.
C31_ConcurrentSavesOfOneId ==
    Settled /\ SameRecord /\ ~HasId(last.pre, last.saves[1].t, last.saves[1].object.id) =>
        /\ \A i \in DOMAIN last.saves : last.saves[i].pc = "saved"
        /\ last.saves[1].exists # last.saves[2].exists
        /\ Cardinality(RowsOf(last.saves[1])) = 1

\* the primary key keeps the row single, whatever the two saves do
OneRowForOneId ==
    Settled /\ SameRecord => Cardinality(RowsOf(last.saves[1])) = 1

BothAskedThenOneFailed == Settled /\ SameRecord /\ ~last.saves[1].exists /\ ~last.saves[2].exists /\ last.saves[1].pc = "saved" /\ last.saves[2].pc = "failed"
OneInsertedOtherUpdated == Settled /\ SameRecord /\ ~last.saves[1].exists /\ last.saves[2].exists /\ last.saves[1].pc = "saved" /\ last.saves[2].pc = "saved"

UnrelatedSavesOfTwoTables == Settled /\ last.saves[1].t # last.saves[2].t /\ last.saves[1].object.id # last.saves[2].object.id /\ ~last.saves[1].exists /\ ~last.saves[2].exists /\ db = OneAfterTheOther(last.saves[1], last.saves[2])

(***************************************************************************)
(* Vocabulary of the cascade properties                                    *)
(***************************************************************************)
DestroyedId == Get(last.object, "id")
DependentOf(t) == {r \in {availableRelations(scn, t)[k] : k \in DOMAIN availableRelations(scn, t)} : r.dependent \/ r.type = "hasAndBelongsToMany"}
CascadeTable(dr) == IF dr.type = "hasAndBelongsToMany" THEN dr.throughTable ELSE dr.tableName
CascadeKey(dr) == IF dr.type = "hasAndBelongsToMany" THEN dr.sourceKey ELSE dr.key
\* the rows destroy removes from table t: the row itself, and the rows of
\* its dependent relations that are keyed on it
RemovedFrom(t) ==
    {r \in last.pre[t] : t = last.table /\ r.id = DestroyedId}
    \cup {r \in last.pre[t] : \E dr \in DependentOf(last.table) : CascadeTable(dr) = t /\ r[CascadeKey(dr)] = DestroyedId}
Children == UNION {{r \in last.pre[dr.tableName] : r[dr.key] = DestroyedId} : dr \in {x \in DependentOf(last.table) : x.type # "hasAndBelongsToMany"}}

\* C33: destroy deletes the rows of dependent relations with delete queries
\* of its own: no hook of the related table runs for them, and the rows that
\* depend on the deleted children (their dependent relations, their join
\* rows) stay in the storage: the cascade is one level deep.
C33_CascadeOneLevelDeep ==
    Destroyed =>
        /\ \A i \in DOMAIN last.hooked : last.hooked[i].t = last.table
        /\ \A t \in Tables(scn) : db[t] = last.pre[t] \ RemovedFrom(t)

C33_Witness == Destroyed /\ last.table = "users" /\ \E c \in Children : \E f \in db.profiles : f.projectId = c.id

ChildrenJoinRowsLeft == Destroyed /\ last.table = "users" /\ \E c \in Children : \E j \in db.projects_users : j.projectId = c.id
ChildrenDeletedUnhooked == Destroyed /\ last.table = "users" /\ Children # {} /\ Children \cap db.projects = {} /\ Len(last.hooked) = 2

(***************************************************************************)
(* Vocabulary of the ordering properties                                   *)
(***************************************************************************)
OfParent(names) == {i \in DOMAIN last.log : last.log[i][1] = "hook" /\ last.log[i][2] = last.table /\ last.log[i][3] \in names}
ParentWrites == {i \in DOMAIN last.log : last.log[i][1] \in {"insert", "update"} /\ last.log[i][2] = last.table}
OfRelated == {i \in DOMAIN last.log : last.log[i][2] # last.table}
FirstOf(S) == CHOOSE i \in S : \A j \in S : i <= j

\* C34: in a save of a parent with related records attached, the parent's
\* beforeCreate and beforeSave complete and the parent's row is written
\* before any hook or write of a related record, and the parent's afterSave
\* and afterCreate start only after the save of every related record, its
\* after hooks included, has completed.
C34_ParentAroundRelated ==
    last.op = "save" /\ OfRelated # {} =>
        /\ ParentWrites # {}
        /\ \A r \in OfRelated :
            /\ \A h \in OfParent({"beforeCreate", "beforeSave"}) : h < r
            /\ FirstOf(ParentWrites) < r
            /\ \A h \in OfParent({"afterSave", "afterCreate"}) : r < h
        /\ \A i \in DOMAIN last.hooked : last.hooked[i].awaited

C34_Witness == last.op = "save" /\ ~last.err /\ OfParent({"afterCreate"}) # {} /\ \E r \in OfRelated : last.log[r][1] = "hook" /\ last.log[r][3] = "afterCreate"

ParentAroundRelatedUpdate == last.op = "save" /\ last.again /\ ~last.err /\ OfParent({"afterSave"}) # {} /\ OfParent({"afterCreate"}) = {} /\ \E r \in OfRelated : last.log[r][1] = "update"
ParentAroundJoinRow == last.op = "save" /\ ~last.err /\ OfParent({"afterSave"}) # {} /\ \E r \in OfRelated : last.log[r] [2] = "projects_users" /\ last.log[r][1] = "insert"

(***************************************************************************)
(* Vocabulary of the hasOne properties                                     *)
(***************************************************************************)
HasOneFields == {k \in DOMAIN availableRelations(scn, last.table) : availableRelations(scn, last.table)[k].type = "hasOne"}
NullHasOne == {k \in HasOneFields \cap DOMAIN last.object : last.object[k] = <<>>}
PointingAtSaved(d, relation) == {r \in d[relation.tableName] : r[relation.key] = SavingId}
\* the write of the record itself went through
ParentWriteIssued == ~last.canc /\ Queries(last.log) # <<>> /\ IF HasId(last.pre, last.table, SavingId) THEN Queries(last.log)[1][1] = "update" ELSE Queries(last.log)[1][1] = "insert"

\* C35: saving a parent whose hasOne relation field is present but null
\* raises an error instead of detaching the related row that points at the
\* parent, and the write of the parent's own row, made before the error,
\* is not undone.
C35_NullHasOneThrows ==
    last.op = "save" /\ NullHasOne # {} /\ ParentWriteIssued =>
        /\ last.err
        /\ ParentRowWritten
        /\ \A k \in NullHasOne :
            PointingAtSaved(db, availableRelations(scn, last.table)[k])
                = PointingAtSaved(last.pre, availableRelations(scn, last.table)[k])

C35_Witness == last.op = "save" /\ NullHasOne # {} /\ ParentWriteIssued /\ last.err /\ ParentRowWritten /\ \E k \in NullHasOne : PointingAtSaved(db, availableRelations(scn, last.table)[k]) # {}

NullHasOneOnNewParent == last.op = "save" /\ NullHasOne # {} /\ last.err /\ ~HasId(last.pre, last.table, SavingId) /\ ParentRowWritten

(***************************************************************************)
(* Vocabulary of the eager loading queries                                 *)
(***************************************************************************)
\* the tables queried after the select of the rows themselves
LoadedFrom == [i \in 1..(Len(last.via) - 1) |-> last.via[i + 1].t]
QueriesFor(relation) ==
    IF relation.type = "hasAndBelongsToMany" THEN <<relation.throughTable, relation.tableName>>
    ELSE <<relation.tableName>>
RECURSIVE QueriesForAll(_, _)
QueriesForAll(rels, names) ==
    IF names = <<>> THEN <<>>
    ELSE QueriesFor(rels[Head(names)]) \o QueriesForAll(rels, Tail(names))
RowsRead == db[last.table]

\* C36: includeRelations issues, for each requested relation name, exactly
\* one query (two for hasAndBelongsToMany: the join rows, then the related
\* rows), however many rows the result has; with an empty result or no
\* relation requested it issues no query and returns the rows unchanged.
C36_OneQueryPerRelation ==
    last.op = "all" /\ ~last.err =>
        /\ last.via[1].t = last.table
        /\ IF RowsRead = {} \/ last.object = <<>>
           THEN LoadedFrom = <<>> /\ Elements(last.ret) = RowsRead /\ Len(last.ret) = Cardinality(RowsRead)
           ELSE LoadedFrom = QueriesForAll(availableRelations(scn, last.table), last.object)

C36_Witness == last.op = "all" /\ ~last.err /\ Cardinality(RowsRead) = 2 /\ last.object # <<>> /\ Len(LoadedFrom) = 2 /\ LoadedFrom[1] = "projects_users"

OneQueryForManyRows == last.op = "all" /\ ~last.err /\ Cardinality(RowsRead) = 2 /\ last.object # <<>> /\ Len(LoadedFrom) = 1
NoQueryForNoRows == last.op = "all" /\ ~last.err /\ RowsRead = {} /\ last.object # <<>> /\ LoadedFrom = <<>> /\ last.ret = <<>>
NoQueryForNoRelation == last.op = "all" /\ ~last.err /\ RowsRead # {} /\ last.object = <<>> /\ LoadedFrom = <<>>

(***************************************************************************)
(* Vocabulary of the written fields                                        *)
(***************************************************************************)
RelationFields(t) == DOMAIN availableRelations(scn, t)
GivenRelations == DOMAIN last.object \cap RelationFields(last.table)

\* C37: in every insert or update that save issues for a record of a table,
\* the fields written contain no registered relation of that table; the
\* relation values are put back on the record returned after the write.
C37_RelationsNeverWritten ==
    last.op = "save" =>
        /\ \A i \in DOMAIN last.wrote : last.wrote[i].fields \cap RelationFields(last.wrote[i].t) = {}
        /\ ~last.err /\ ~last.canc => GivenRelations \subseteq DOMAIN last.ret

C37_Witness == last.op = "save" /\ ~last.err /\ ~last.canc /\ GivenRelations # {} /\ Len(last.wrote) >= 2 /\ last.wrote[1].t = last.table /\ GivenRelations \subseteq DOMAIN last.ret

RelationsStrippedOnUpdate == last.op = "save" /\ last.again /\ ~last.err /\ GivenRelations # {} /\ HasId(last.pre, last.table, SavingId) /\ last.wrote[1].fields \cap GivenRelations = {}


(***************************************************************************)
(* C38                                                                     *)
(***************************************************************************)
RelationRegistered == last.op = "model"
PairRegistered == last.op = "models"
ManyToMany == Truthy(last.declared.hasAndBelongsToMany)
\* a given key of the declaration is the value of the derived definition
Overrides(given, derived) == given # Undef => derived = given

AllFourGiven ==
    /\ RelationRegistered /\ ManyToMany
    /\ last.declared.through = "joins" /\ last.declared.primaryKey = "ownerId"
    /\ last.declared.foreignKey = "otherId" /\ last.declared.table = "others"
    /\ last.relation.throughTable = "joins" /\ last.relation.sourceKey = "ownerId"

\* a has-many relation whose declaration gives only the foreign key keeps the
\* derived table
ForeignKeyGivenTableDerived ==
    /\ RelationRegistered
    /\ last.declared.hasMany = "projects" /\ last.declared.hasAndBelongsToMany = Undef
    /\ last.declared.foreignKey = "otherId" /\ last.declared.table = Undef
    /\ last.relation.key = "otherId" /\ last.relation.tableName = "projects"


(***************************************************************************)
(* C39                                                                     *)
(***************************************************************************)
ModelReturned == last.op = "model"
HandleChained == last.op \in {"scope", "include"}
RegisteredTables == DOMAIN database.models
\* the handle of table t is the one the registering call built: its
\* relations, hooks and contexts are the ones that call gave
AsRegistered(t) ==
    /\ database.models[t].relations = database.given[t].relations
    /\ database.models[t].hooks = database.given[t].hooks
    /\ database.models[t].contexts = database.given[t].contexts
    /\ database.models[t].availableRelations =
        [k \in DOMAIN database.given[t].relations |->
            Relation(t, k, database.given[t].relations[k])]
\* the registered handle has no scope and includes no relation
Unscoped(t) ==
    /\ database.models[t].defaultScope = <<>>
    /\ database.models[t].includedRelations = <<>>

\* C39: Database.model registers a table handle once: every call with a
\* registered table name returns the handle of the first call, with the
\* relations, hooks and contexts that call gave, whatever options the later
\* call gives; where, order, page and include return a handle that is not
\* the registered one and leave the registered handle without scope and
\* without included relations.
C39_HandleRegisteredOnce ==
    /\ \A t \in RegisteredTables : AsRegistered(t) /\ Unscoped(t)
    /\ ModelReturned => last.returned = database.models[last.tableName]
    /\ HandleChained =>
        /\ last.returned # database.models[last.tableName]
        /\ last.returned.defaultScope # <<>>

C39_Witness ==
    /\ ModelReturned
    /\ last.options # database.given[last.tableName]
    /\ last.options.hooks = Undef /\ last.returned.hooks = "hooks1"
    /\ DOMAIN last.options.relations = {}
    /\ DOMAIN last.returned.availableRelations # {}

\* a handle chained twice from the registered one, then given relations to
\* include, while the registered handle stays as it was
ChainedFromRegistered ==
    /\ last.op = "include"
    /\ Len(last.returned.defaultScope) = 1 + MaxClauses
    /\ last.returned.includedRelations = <<"projects">>
    /\ Unscoped(last.tableName)


(***************************************************************************)
(* C40                                                                     *)
(***************************************************************************)
BothRunsStarted == Len(last.runs) = 2
MigrateReturned == last.pc = "returned" /\ ~last.threw

\* C40: migrate() and rollback() run the migration on the main database and
\* then on the test database: the second run is started on a connection
\* opened after the first one, while NODE_ENV is test, and not on a
\* connection whose destroy() is under way; and when the call returns
\* NODE_ENV has the value the call found.
C40_SecondRunOnNewTestConnection ==
    /\ BothRunsStarted =>
        /\ last.runs[2].connection # last.runs[1].connection
        /\ last.opened[last.runs[2].connection] = "test"
        /\ ~last.runs[2].destroying
    /\ MigrateReturned => database.NODE_ENV = last.found

\* the second run is started on the first connection, the one to the main
\* database, while its destroy() is under way
SecondRunOnFirstConnection ==
    /\ BothRunsStarted
    /\ last.found = "production"
    /\ Len(last.opened) = 1
    /\ last.runs[2].connection = 1
    /\ last.runs[2].knex = <<DATABASE_URL>>
    /\ last.runs[2].NODE_ENV = "test"
    /\ last.runs[2].destroying

\* NODE_ENV was unset and holds the string "undefined" after the call
UnsetEnvNotRestored ==
    /\ MigrateReturned
    /\ last.found = Undef
    /\ database.NODE_ENV = "undefined"

\* NODE_ENV was set and holds that value again after the call
SetEnvRestored ==
    /\ MigrateReturned
    /\ last.found = "production"
    /\ database.NODE_ENV = "production"

====
